---- MODULE Spec2Model ----
(***************************************************************************)
(* Weather-Forecast-MAS: the multi-source collector (DataAcquisitonAgent), *)
(* the LangGraph workflow and its orchestrator (WeatherForecastWorkflow,   *)
(* WeatherMASOrchestrator) and the narration agent (LLMAgent).             *)
(*                                                                         *)
(* Python values are represented as follows.                               *)
(*   Optional[T]     a sequence of length <= 1: <<>> is None, <<x>> is x   *)
(*   dict / TypedDict a record, or a function over the possible keys whose *)
(*                   value <<>> means "key absent"                         *)
(*   list            a sequence                                            *)
(*   str             a string, or a sequence of tokens where the code      *)
(*                   looks inside the text                                 *)
(***************************************************************************)
EXTENDS Integers, Sequences, FiniteSets, TLC

VARIABLES
    \* ---- DataAcquisitonAgent (agents/data_acquisition.py)
    clients,        \* self.clients: the configured sources, in dict order
    is_available,   \* client.is_available of every configured source
    behaviour,      \* environment: what get_weather of every source does
    results,        \* the local dict `results` of fetch_all_sources
    f_pc,           \* position inside get_weather_summary / fetch_all_sources
    f_idx,          \* index of the loop `for source, client in self.clients.items()`
    summary,        \* the value returned by get_weather_summary
    consensus,      \* the value returned (or the error raised) by calculate_consensus
    \* ---- AgentState and the orchestrator (workflows/)
    state,          \* the AgentState dict flowing through the graph
    initial_state,  \* the local `initial_state` of get_weather_forecast
    providers,      \* environment: what every weather provider does for the request
    wf_pc,          \* position inside get_weather_forecast
    response,       \* the dict returned by get_weather_forecast
    \* ---- LLMAgent (agents/llm_chat.py)
    llm_keys,       \* LLMConfig: per provider "nokey" | "unusable" | "ok"
    llm_client,     \* self.llm_client: <<>> (None) or <<provider name>>
    llm_pc,         \* position inside analyze_with_llm
    attempt,        \* loop variable of _call_llm_with_retry
    llm_calls,      \* number of calls made to llm_client.generate_response
    response_text,  \* the text the last call returned (None before it returns)
    last_exc,       \* ghost: the exception the latest failed call raised
    retry_outcome,  \* what _call_llm_with_retry returned or raised
    errors_before,  \* ghost: state["errors"] when analyze_with_llm was entered
    \* ---- ReportAgent (agents/weather_data_report.py)
    rep_pc,         \* position inside generate_weather_data_report
    \* ---- helper functions exercised on their own
    calc_pc,        \* "off", "call" (arguments chosen) or "return"
    calc_args,      \* the arguments of the call
    calc_ret,       \* the returned value
    hash_seed,      \* environment: the interpreter's string hash seed, which fixes
                    \* the iteration order of a set of strings for one process
    \* ---- MultiProviderLLM (utils/llm_client/multi_provider.py)
    mp_pc,          \* position inside generate_response: "off", "call" or "done"
    current_provider, \* self.current_provider (the provider of self.client)
    mp_trace,       \* ghost: the provider invocations made so far, in order
    mp_result       \* what generate_response returned or raised

fetch_vars == <<clients, is_available, behaviour, results, f_pc, f_idx, summary, consensus>>
wf_vars    == <<initial_state, providers, wf_pc, response>>
llm_vars   == <<llm_keys, llm_client, llm_pc, attempt, llm_calls, response_text,
               last_exc, retry_outcome, errors_before>>
rep_vars   == <<rep_pc>>
calc_vars  == <<calc_pc, calc_args, calc_ret, hash_seed>>
mp_vars    == <<mp_pc, current_provider, mp_trace, mp_result>>
vars       == <<fetch_vars, state, wf_vars, llm_vars, rep_vars, calc_vars, mp_vars>>

None    == <<>>
Some(x) == <<x>>

(***************************************************************************)
(* AgentStatus (workflows/state.py)                                        *)
(***************************************************************************)
PENDING    == "pending"
COLLECTING == "collecting"
ANALYZING  == "analyzing"
PROCESSING == "processing"
COMPLETED  == "completed"
FAILED     == "failed"
\* the key is absent from the dict
UNSET      == "unset"

(***************************************************************************)
(* DataSource and the provider capability (weather_client)                 *)
(***************************************************************************)
OPENWEATHER     == "openweather"
WEATHERAPI      == "weatherapi"
VISUAL_CROSSING == "visualcrossing"
DataSource      == {OPENWEATHER, WEATHERAPI, VISUAL_CROSSING}

\* the inputs the provider capability is exercised with
Temps    == {70, 74, 76}
Conds    == {"Clear", "Rain"}
ErrTexts == {"API request failed", "Unexpected error"}
ExcTexts == {"", "connection reset"}

\* WeatherData as returned by a client: a valid reading or _error_result
WeatherData(src, t, c, e) ==
    [source |-> src, temperature |-> t, conditions |-> c, error |-> e]

ValidReadings(src) == { WeatherData(src, t, c, None) : t \in Temps, c \in Conds }
ErrorReadings(src) == { WeatherData(src, 0, "", Some(e)) : e \in ErrTexts }

\* what a call of client.get_weather can do: return a reading, raise, or
\* never return
Outcomes(src) ==
    { [kind |-> "data", data |-> d, exc |-> ""] :
          d \in ValidReadings(src) \cup ErrorReadings(src) }
    \cup
    { [kind |-> "raise", data |-> WeatherData(src, 0, "", None), exc |-> x] :
          x \in ExcTexts }
    \cup
    { [kind |-> "hang", data |-> WeatherData(src, 0, "", None), exc |-> ""] }

SourceResult(src, d, ok, e) ==
    [source |-> src, data |-> d, success |-> ok, error |-> e]

\* _initialize_clients: OpenWeather is always configured, the other two only
\* with a key; dict order is insertion order
InitialClients(haveWA, haveVC) ==
    <<OPENWEATHER>> \o (IF haveWA THEN <<WEATHERAPI>> ELSE <<>>)
                    \o (IF haveVC THEN <<VISUAL_CROSSING>> ELSE <<>>)

ConfiguredSet == { clients[i] : i \in 1..Len(clients) }
AvailableSet  == { s \in ConfiguredSet : is_available[s] }

\* Python truthiness of an Optional[str]
Truthy(o) == o # None /\ o[1] # ""

\* the body of the loop of fetch_all_sources for one client whose call
\* returned or raised
SourceResultOf_NoErrorCheck(src, o) ==
    IF o.kind = "raise"
    THEN SourceResult(src, None, FALSE, Some(o.exc))
    ELSE SourceResult(src, Some(o.data), TRUE, None)

SourceResultOf(src, o) ==
    IF o.kind = "raise"
    THEN SourceResult(src, None, FALSE, Some(o.exc))
    ELSE IF Truthy(o.data.error)
         THEN SourceResult(src, None, FALSE, o.data.error)
         ELSE SourceResult(src, Some(o.data), TRUE, None)

NoResults == [s \in DataSource |-> None]

\* get_weather_summary calls fetch_all_sources, which starts with results = {}
GetWeatherSummary ==
    /\ f_pc = "idle"
    /\ f_pc' = "loop"
    /\ f_idx' = 1
    /\ results' = NoResults
    /\ UNCHANGED <<clients, is_available, behaviour, summary, state, wf_vars, llm_vars,
                   consensus, rep_vars, calc_vars, mp_vars>>

\* `if not client.is_available: continue`
FetchSkip ==
    /\ f_pc = "loop"
    /\ f_idx <= Len(clients)
    /\ ~is_available[clients[f_idx]]
    /\ f_idx' = f_idx + 1
    /\ UNCHANGED <<clients, is_available, behaviour, results, f_pc, summary,
                   state, wf_vars, llm_vars,
                   consensus, rep_vars, calc_vars, mp_vars>>

\* `weather_data = client.get_weather(target_location)`: the synchronous call
\* is entered
FetchCall ==
    /\ f_pc = "loop"
    /\ f_idx <= Len(clients)
    /\ is_available[clients[f_idx]]
    /\ f_pc' = "waiting"
    /\ UNCHANGED <<clients, is_available, behaviour, results, f_idx, summary,
                   state, wf_vars, llm_vars,
                   consensus, rep_vars, calc_vars, mp_vars>>

\* the call returns or raises, and the loop body stores the SourceResult
FetchReturn ==
    /\ f_pc = "waiting"
    /\ behaviour[clients[f_idx]].kind # "hang"
    /\ results' = [results EXCEPT ![clients[f_idx]] =
                       Some(SourceResultOf(clients[f_idx], behaviour[clients[f_idx]]))]
    /\ f_idx' = f_idx + 1
    /\ f_pc' = "loop"
    /\ UNCHANGED <<clients, is_available, behaviour, summary, state, wf_vars, llm_vars,
                   consensus, rep_vars, calc_vars, mp_vars>>

\* `return results`
FetchAllReturn ==
    /\ f_pc = "loop"
    /\ f_idx > Len(clients)
    /\ f_pc' = "fetched"
    /\ UNCHANGED <<clients, is_available, behaviour, results, f_idx, summary,
                   state, wf_vars, llm_vars,
                   consensus, rep_vars, calc_vars, mp_vars>>

(***************************************************************************)
(* calculate_consensus and get_weather_summary                             *)
(***************************************************************************)
\* the order in which a dict keyed by source is iterated (insertion order of
\* _initialize_clients)
SourceOrder == <<OPENWEATHER, WEATHERAPI, VISUAL_CROSSING>>

SetMin(S) == CHOOSE x \in S : \A y \in S : x <= y
SetMax(S) == CHOOSE x \in S : \A y \in S : x >= y

\* `{source: result.data for ... if result.success and result.data}` as the
\* sequence of its keys
SuccessfulSources(all_results) ==
    SelectSeq(SourceOrder,
              LAMBDA s : /\ all_results[s] # None
                         /\ all_results[s][1].success
                         /\ all_results[s][1].data # None)

\* the message of the ValueError raised without a successful source
NoSuccessfulSources == "No successful weather data sources"

\* calculate_consensus: raises ValueError (raised = TRUE, error = its text) or
\* returns ConsensusData; of ConsensusData the fields temp_min, temp_max,
\* sources_used, total_sources and source_details are carried
calculate_consensus(all_results, total) ==
    LET succ  == SuccessfulSources(all_results)
        used  == { succ[i] : i \in 1..Len(succ) }
        temps == { all_results[s][1].data[1].temperature : s \in used }
    IN  IF Len(succ) = 0
        THEN [raised |-> TRUE, error |-> NoSuccessfulSources,
              temp_min |-> 0, temp_max |-> 0, sources_used |-> 0,
              total_sources |-> total, source_details |-> NoResults]
        ELSE [raised |-> FALSE, error |-> "",
              temp_min |-> SetMin(temps), temp_max |-> SetMax(temps),
              sources_used |-> Len(succ), total_sources |-> total,
              source_details |->
                  [s \in DataSource |->
                      IF s \in used THEN all_results[s][1].data ELSE None]]

\* one entry of the summary's source_details
SourceDetail(result) ==
    IF result.success /\ result.data # None
    THEN [temperature |-> Some(result.data[1].temperature),
          conditions  |-> Some(result.data[1].conditions),
          error       |-> None, has_error |-> FALSE]
    ELSE [temperature |-> None, conditions |-> None,
          error       |-> result.error, has_error |-> TRUE]

\* the `except ValueError` branch lists every result under 'error'
FailureDetail(result) ==
    [temperature |-> None, conditions |-> None,
     error |-> result.error, has_error |-> TRUE]

get_weather_summary(all_results, total) ==
    LET c == calculate_consensus(all_results, total)
    IN  IF c.raised
        THEN [success |-> FALSE, error |-> Some(c.error),
              sources_used |-> 0, total_sources |-> 0,
              source_details |->
                  [s \in DataSource |->
                      IF all_results[s] = None THEN None
                      ELSE Some(FailureDetail(all_results[s][1]))]]
        ELSE [success |-> TRUE, error |-> None,
              sources_used |-> c.sources_used, total_sources |-> c.total_sources,
              source_details |->
                  [s \in DataSource |->
                      IF all_results[s] = None THEN None
                      ELSE Some(SourceDetail(all_results[s][1]))]]

\* get_weather_summary after fetch_all_sources has returned
Summarize ==
    /\ f_pc = "fetched"
    /\ summary' = Some(get_weather_summary(results, Len(clients)))
    /\ f_pc' = "summarized"
    /\ UNCHANGED <<clients, is_available, behaviour, results, f_idx,
                   state, wf_vars, llm_vars,
                   consensus, rep_vars, calc_vars, mp_vars>>

(***************************************************************************)
(* AgentState (workflows/state.py) and _create_initial_state               *)
(***************************************************************************)
Locations  == {"Hanoi", "Oslo"}
RequestIds == {"a1b2c3d4", "e5f6a7b8"}

\* state.get("user_question"): absent, or a question of which the fallback
\* only reads whether it contains "cold" and whether it contains "rain"
NoQuestion == [present |-> FALSE, cold |-> FALSE, rain |-> FALSE]
Questions  == {NoQuestion}
              \cup { [present |-> TRUE, cold |-> c, rain |-> r] : c, r \in BOOLEAN }

\* keys that _create_initial_state does not write (agent3_status,
\* weather_report, llm_response, user_question) are absent: UNSET / None
_create_initial_state(location, rid) ==
    [location          |-> location,
     request_id        |-> rid,
     user_question     |-> NoQuestion,
     agent1_status     |-> PENDING,
     agent2_status     |-> PENDING,
     agent3_status     |-> UNSET,
     raw_weather_data  |-> <<>>,
     weather_consensus |-> None,
     weather_alerts    |-> <<>>,
     analysis_summary  |-> None,
     detailed_insights |-> None,
     weather_report    |-> None,
     llm_response      |-> None,
     llm_analysis      |-> None,
     errors            |-> <<>>]

\* the values the variables of a component have while it is not running
NoProviders == [s \in DataSource |->
                   [kind |-> "unavailable",
                    reading |-> [source |-> s, temperature |-> 0, wind_speed |-> 0,
                                 conditions |-> "Clear"]]]
IdleState == _create_initial_state("Hanoi", "a1b2c3d4")

FetchIdle ==
    /\ clients = <<OPENWEATHER>>
    /\ is_available = [s \in DataSource |-> FALSE]
    /\ behaviour = [s \in DataSource |->
                      [kind |-> "hang", data |-> WeatherData(s, 0, "", None), exc |-> ""]]
    /\ results = NoResults
    /\ f_pc = "off"
    /\ f_idx = 1
    /\ summary = None
    /\ consensus = None

WorkflowIdle ==
    /\ initial_state = IdleState
    /\ providers = NoProviders
    /\ wf_pc = "off"
    /\ response = None

LLMIdle ==
    /\ llm_keys = [p \in {"openai", "groq", "gemini"} |-> "nokey"]
    /\ llm_client = None
    /\ llm_pc = "off"
    /\ attempt = 0
    /\ llm_calls = 0
    /\ response_text = None
    /\ last_exc = None
    /\ retry_outcome = None
    /\ errors_before = <<>>

ReportIdle == rep_pc = "off"

CalcIdle ==
    /\ calc_pc = "off"
    /\ calc_args = <<>>
    /\ calc_ret = <<>>
    /\ hash_seed = 0

MPIdle ==
    /\ mp_pc = "off"
    /\ current_provider = "openai"
    /\ mp_trace = <<>>
    /\ mp_result = None

(***************************************************************************)
(* The collector: DataAcquisitonAgent.get_weather_summary                  *)
(***************************************************************************)
\* __init__: the clients the configuration gives, and what every provider
\* will do when asked.  WeatherAPI and Visual Crossing are configured only
\* with a key and are then available; OpenWeather is always configured and
\* is available unless its key is empty or the placeholder.
FetchInit ==
    /\ \E haveWA, haveVC \in BOOLEAN : clients = InitialClients(haveWA, haveVC)
    /\ \E owOk \in BOOLEAN :
          is_available = [s \in DataSource |->
                             IF s = OPENWEATHER THEN owOk ELSE s \in ConfiguredSet]
    /\ behaviour \in { b \in [DataSource -> UNION { Outcomes(s) : s \in DataSource }] :
                          \A s \in DataSource :
                              /\ b[s] \in Outcomes(s)
                              /\ s \notin AvailableSet => b[s].kind = "hang" }
    /\ results = NoResults
    /\ f_pc = "idle"
    /\ f_idx = 1
    /\ summary = None
    /\ consensus = None
    /\ state = IdleState
    /\ WorkflowIdle
    /\ LLMIdle
    /\ ReportIdle
    /\ MPIdle
    /\ CalcIdle

FetchNext ==
    \/ GetWeatherSummary
    \/ FetchSkip
    \/ FetchCall
    \/ FetchReturn
    \/ FetchAllReturn
    \/ Summarize

FetchSpec == FetchInit /\ [][FetchNext]_vars

\* get_weather_summary is ordinary sequential code: whenever it can take a
\* step it takes it
FetchLiveSpec == FetchSpec /\ WF_vars(FetchNext)

(***************************************************************************)
(* Claims about the collector                                              *)
(***************************************************************************)
FetchReturned == f_pc \in {"fetched", "summarized"}

\* the fetch of source s has been started / has resolved
FetchStarted(s)  == results[s] # None \/ (f_pc = "waiting" /\ clients[f_idx] = s)
FetchResolved(s) == results[s] # None

\* C7: when fetch_all_sources returns, the results hold exactly one
\* SourceResult for every available client and none for any other source; a
\* client that raised or returned an error-tagged reading has success = false,
\* data = None and an error, a client that returned a valid reading has
\* success = true and that reading as data -- whatever the other clients did.
C7_OneResultPerAvailableClient ==
    FetchReturned =>
        \A s \in DataSource :
            IF s \in AvailableSet
            THEN /\ results[s] # None
                 /\ results[s][1].source = s
                 /\ IF behaviour[s].kind = "raise" \/ behaviour[s].data.error # None
                    THEN /\ ~results[s][1].success
                         /\ results[s][1].data = None
                         /\ results[s][1].error # None
                    ELSE /\ results[s][1].success
                         /\ results[s][1].data = Some(behaviour[s].data)
                         /\ results[s][1].error = None
            ELSE results[s] = None

\* C7 witness: three available clients, the first raises, the second returns
\* an error-tagged reading, the third a valid one, and all three are recorded
C7_Witness ==
    /\ FetchReturned
    /\ AvailableSet = DataSource
    /\ behaviour[OPENWEATHER].kind = "raise"
    /\ behaviour[WEATHERAPI].kind = "data" /\ behaviour[WEATHERAPI].data.error # None
    /\ behaviour[VISUAL_CROSSING].kind = "data"
    /\ results[VISUAL_CROSSING] # None /\ results[VISUAL_CROSSING][1].success

\* C8: the fetches of all available providers are issued concurrently: no
\* provider's fetch has resolved while the fetch of another available provider
\* has not been started yet, and nothing is returned for aggregation before
\* every available provider's fetch has resolved.
C8_FetchesIssuedConcurrently ==
    /\ \A p, q \in AvailableSet : FetchResolved(p) => FetchStarted(q)
    /\ FetchReturned => \A p \in AvailableSet : FetchResolved(p)

\* C9: collection is not blocked by a provider fetch that never returns:
\* fetch_all_sources eventually returns.
C9_FetchAllEventuallyReturns == <>FetchReturned

\* every result dict of an attempt in which each attempted provider failed
AllFailedResults ==
    { r \in [DataSource ->
                {None} \cup { Some(SourceResult(s, None, FALSE, Some(e))) :
                                 s \in DataSource, e \in ErrTexts \cup ExcTexts }] :
        /\ \E s \in DataSource : r[s] # None
        /\ \A s \in DataSource : r[s] # None => r[s][1].source = s }

\* C10: the failure reported when no provider is available (nothing was
\* attempted) is never the error condition reported for an attempt in which
\* every provider failed.
C10_NothingToTryIsDistinct ==
    (f_pc = "summarized" /\ AvailableSet = {}) =>
        \A r \in AllFailedResults :
            /\ summary[1].error # get_weather_summary(r, Len(clients)).error
            /\ calculate_consensus(results, Len(clients)).error
                   # calculate_consensus(r, Len(clients)).error

(***************************************************************************)
(* The workflow graph: agent1_data_collector -> agent2_analyzer -> END     *)
(***************************************************************************)
\* WeatherConfig defaults (config/settings.py)
temp_alert_high == 100
temp_alert_low  == 0
wind_alert      == 50

\* what the three providers of a request do: not configured, fail, or return
\* a reading.  A reading carries the fields the workflow reads.
WfTemps == {-5, 70, 105}
WfWinds == {10, 60}
WeatherSourceData(src, t, w) ==
    [source |-> src, temperature |-> t, wind_speed |-> w, conditions |-> "Clear"]
ProviderOutcomes(src) ==
    { [kind |-> "unavailable", reading |-> WeatherSourceData(src, 0, 0)],
      [kind |-> "error",       reading |-> WeatherSourceData(src, 0, 0)] }
    \cup { [kind |-> "ok", reading |-> WeatherSourceData(src, t, w)] :
              t \in WfTemps, w \in WfWinds }
RequestOutcomes ==
    { o \in [DataSource -> UNION { ProviderOutcomes(s) : s \in DataSource }] :
          \A s \in DataSource : o[s] \in ProviderOutcomes(s) }

RECURSIVE SeqSum(_)
SeqSum(q) == IF q = <<>> THEN 0 ELSE Head(q) + SeqSum(Tail(q))

\* WeatherConsensus (workflows/state.py) of a non-empty list of readings; an
\* average is carried as its sum together with sources_count
WeatherConsensus(readings) ==
    LET temps == [i \in 1..Len(readings) |-> readings[i].temperature]
        winds == [i \in 1..Len(readings) |-> readings[i].wind_speed]
    IN  [temperature_sum |-> SeqSum(temps),
         temperature_min |-> SetMin({ temps[i] : i \in 1..Len(temps) }),
         temperature_max |-> SetMax({ temps[i] : i \in 1..Len(temps) }),
         wind_speed_sum  |-> SeqSum(winds),
         conditions_consensus |-> "Clear",
         sources_count   |-> Len(readings)]

\* DataCollectorAgent.collect_weather_data is not part of the sources; it is
\* modelled from the specification of the Collector (4.1) and of the
\* orchestrator's transitions (4.5): no available provider, or no successful
\* reading, ends FAILED with an error logged; otherwise the successful
\* readings and their consensus are stored and the stage ends COMPLETED.
collect_weather_data(st, o) ==
    LET available == SelectSeq(SourceOrder, LAMBDA s : o[s].kind # "unavailable")
        succeeded == SelectSeq(SourceOrder, LAMBDA s : o[s].kind = "ok")
        failed    == SelectSeq(SourceOrder, LAMBDA s : o[s].kind = "error")
        failures  == [i \in 1..Len(failed) |-> <<failed[i], "fetch failed">>]
        readings  == [i \in 1..Len(succeeded) |-> o[succeeded[i]].reading]
    IN  IF Len(available) = 0
        THEN [st EXCEPT !.agent1_status = FAILED,
                        !.errors = Append(@, <<"collector", "no providers available">>)]
        ELSE IF Len(succeeded) = 0
        THEN [st EXCEPT !.agent1_status = FAILED,
                        !.errors = Append(@ \o failures,
                                          <<"collector", "all providers failed">>)]
        ELSE [st EXCEPT !.agent1_status = COMPLETED,
                        !.raw_weather_data = readings,
                        !.weather_consensus = Some(WeatherConsensus(readings)),
                        !.errors = @ \o failures]

\* the messages of exceptions
ExcMsgs == {"boom", "oops"}

\* an except branch that sets FAILED without logging the error
Agent1Raises_Silent(st, msg) == [st EXCEPT !.agent1_status = FAILED]

\* _agent1_node: the collector's result, or FAILED and an error when it raises
Agent1Returns(st, o)   == collect_weather_data(st, o)
Agent1Raises(st, msg)  ==
    [st EXCEPT !.agent1_status = FAILED,
               !.errors = Append(@, <<"Agent 1 failed", msg>>)]

\* f"{x:.1f}" of the average sum/n, as a number of tenths (n <= 3, so that
\* 10*sum/n is never half-way between two tenths)
Tenths(sum, n) == (20 * sum + n) \div (2 * n)

\* _generate_basic_analysis: the values the text is made of
_generate_basic_analysis(c) ==
    [sources_count |-> c.sources_count,
     temperature   |-> Tenths(c.temperature_sum, c.sources_count),
     conditions    |-> c.conditions_consensus]

BasicAlert(sev, type, threshold, tenths) ==
    [severity |-> sev, type |-> type, threshold |-> threshold, current_value |-> tenths]

\* _generate_basic_alerts: temperature_avg > high, < low, wind_speed_avg > wind
_generate_basic_alerts(c) ==
    LET n == c.sources_count
    IN  (IF c.temperature_sum > temp_alert_high * n
         THEN <<BasicAlert("high", "temperature_high", temp_alert_high,
                           Tenths(c.temperature_sum, n))>>
         ELSE <<>>)
        \o
        (IF c.temperature_sum < temp_alert_low * n
         THEN <<BasicAlert("high", "temperature_low", temp_alert_low,
                           Tenths(c.temperature_sum, n))>>
         ELSE <<>>)
        \o
        (IF c.wind_speed_sum > wind_alert * n
         THEN <<BasicAlert("medium", "wind", wind_alert,
                           Tenths(c.wind_speed_sum, n))>>
         ELSE <<>>)

\* _agent2_node.  raisesAt says where the analysis raises, if it does:
\* "no", "analysis" (_generate_basic_analysis) or "alerts"
\* (_generate_basic_alerts, after analysis_summary has been stored)
_agent2_node(st, raisesAt, msg) ==
    IF st.raw_weather_data = <<>> \/ st.weather_consensus = None
    THEN [st EXCEPT !.agent2_status = FAILED,
                    !.errors = Append(@, <<"No weather data available for analysis", "">>)]
    ELSE IF raisesAt = "analysis"
    THEN [st EXCEPT !.agent2_status = FAILED,
                    !.errors = Append(@, <<"Agent 2 failed", msg>>)]
    ELSE IF raisesAt = "alerts"
    THEN [st EXCEPT
            !.analysis_summary = Some(_generate_basic_analysis(st.weather_consensus[1])),
            !.agent2_status = FAILED,
            !.errors = Append(@, <<"Agent 2 failed", msg>>)]
    ELSE [st EXCEPT
            !.analysis_summary = Some(_generate_basic_analysis(st.weather_consensus[1])),
            !.weather_alerts   = _generate_basic_alerts(st.weather_consensus[1]),
            !.agent2_status    = COMPLETED]

(***************************************************************************)
(* WeatherMASOrchestrator                                                  *)
(***************************************************************************)
NoPreview == <<>>

\* the first three readings, as raw_data_preview shows them
Preview(raw) == SubSeq(raw, 1, IF Len(raw) < 3 THEN Len(raw) ELSE 3)

\* the success branch of _format_results.  `keys` are the keys of the returned dict and of its
\* workflow_status; a field whose key is absent holds a default.
FormatSuccess(st) ==
    [keys |-> {"success", "workflow_status", "request_id", "location", "timestamp",
               "data_sources", "weather_summary", "alerts", "analysis",
               "raw_data_preview", "errors"},
     status_keys      |-> {"agent1", "agent2", "execution_time_ms"},
     success          |-> TRUE,
     request_id       |-> st.request_id,
     errors           |-> st.errors,
     agent1_status    |-> st.agent1_status,
     agent2_status    |-> st.agent2_status,
     message          |-> "",
     error            |-> None,
     used             |-> Len(st.raw_weather_data),
     weather_summary  |-> st.weather_consensus,
     alerts           |-> st.weather_alerts,
     analysis         |-> st.analysis_summary,
     raw_data_preview |-> Preview(st.raw_weather_data)]

\* _format_results without its check of the collection stage
_format_results_NoFailureCheck(st) == FormatSuccess(st)

_format_results(st) ==
    IF st.agent1_status # COMPLETED \/ st.raw_weather_data = <<>>
    THEN [keys |-> {"success", "request_id", "errors", "agent1_status",
                    "agent2_status", "message"},
          status_keys      |-> {},
          success          |-> FALSE,
          request_id       |-> st.request_id,
          errors           |-> st.errors,
          agent1_status    |-> st.agent1_status,
          agent2_status    |-> st.agent2_status,
          message          |-> "Failed to collect weather data",
          error            |-> None,
          used             |-> 0,
          weather_summary  |-> None,
          alerts           |-> <<>>,
          analysis         |-> None,
          raw_data_preview |-> NoPreview]
    ELSE FormatSuccess(st)

\* _create_error_response
_create_error_response(st, error) ==
    [keys |-> {"success", "request_id", "location", "timestamp", "error", "errors",
               "workflow_status"},
     status_keys      |-> {"agent1", "agent2"},
     success          |-> FALSE,
     request_id       |-> st.request_id,
     errors           |-> Append(st.errors, <<"exception", error>>),
     agent1_status    |-> st.agent1_status,
     agent2_status    |-> st.agent2_status,
     message          |-> "",
     error            |-> Some(error),
     used             |-> 0,
     weather_summary  |-> None,
     alerts           |-> <<>>,
     analysis         |-> None,
     raw_data_preview |-> NoPreview]

\* get_weather_forecast up to `await self.graph.ainvoke(initial_state)`
GetWeatherForecast ==
    /\ wf_pc = "idle"
    /\ \E loc \in Locations, rid \in RequestIds :
          /\ initial_state' = _create_initial_state(loc, rid)
          /\ state' = _create_initial_state(loc, rid)
    /\ providers' \in RequestOutcomes
    /\ wf_pc' = "agent1"
    /\ UNCHANGED <<response, fetch_vars, llm_vars, rep_vars, calc_vars, mp_vars>>

\* node agent1_data_collector; the edge leads to agent2_analyzer
Agent1Node ==
    /\ wf_pc = "agent1"
    /\ \/ state' = Agent1Returns(state, providers)
       \/ \E msg \in ExcMsgs : state' = Agent1Raises(state, msg)
    /\ wf_pc' = "agent2"
    /\ UNCHANGED <<initial_state, providers, response, fetch_vars, llm_vars, rep_vars, calc_vars, mp_vars>>

\* node agent2_analyzer; the edge leads to END
Agent2Node ==
    /\ wf_pc = "agent2"
    /\ \E raisesAt \in {"no", "analysis", "alerts"}, msg \in ExcMsgs :
          /\ raisesAt = "no" => msg = "boom"
          /\ state' = _agent2_node(state, raisesAt, msg)
    /\ wf_pc' = "format"
    /\ UNCHANGED <<initial_state, providers, response, fetch_vars, llm_vars, rep_vars, calc_vars, mp_vars>>

\* the dict `initial_state` as the except branch of get_weather_forecast sees
\* it: the graph hands every node a dict of its own, so the assignments of the
\* nodes do not reach initial_state, while the list behind "errors" is the one
\* object the nodes append to
InitialStateAtFailure == [initial_state EXCEPT !.errors = state.errors]

\* ainvoke has returned final_state: `results = self._format_results(final_state)`
\* and `return results`
FormatResults ==
    /\ wf_pc = "format"
    /\ response' = Some(_format_results(state))
    /\ wf_pc' = "returned"
    /\ UNCHANGED <<state, initial_state, providers, fetch_vars, llm_vars, rep_vars, calc_vars, mp_vars>>

\* result formatting raises: `except Exception as exc` returns
\* _create_error_response(initial_state, str(exc)).  Only the success branch
\* of _format_results and the read of consensus.sources_count after it touch
\* the objects stored by the stages; the failure branch reads the dict alone.
FormatRaises ==
    /\ wf_pc = "format"
    /\ state.agent1_status = COMPLETED
    /\ state.raw_weather_data # <<>>
    /\ \E msg \in ExcMsgs :
          response' = Some(_create_error_response(InitialStateAtFailure, msg))
    /\ wf_pc' = "returned"
    /\ UNCHANGED <<state, initial_state, providers, fetch_vars, llm_vars, rep_vars, calc_vars, mp_vars>>

WorkflowInit ==
    /\ wf_pc = "idle"
    /\ initial_state = IdleState
    /\ providers = NoProviders
    /\ state = IdleState
    /\ response = None
    /\ FetchIdle
    /\ LLMIdle
    /\ ReportIdle
    /\ MPIdle
    /\ CalcIdle

WorkflowNext ==
    \/ GetWeatherForecast
    \/ Agent1Node
    \/ Agent2Node
    \/ FormatResults
    \/ FormatRaises

Spec == WorkflowInit /\ [][WorkflowNext]_vars

(***************************************************************************)
(* Claims about the orchestrated workflow                                  *)
(***************************************************************************)
Returned == wf_pc = "returned"

\* the response was built by _format_results, not by the except branch
FormattedNormally == Returned /\ response[1].error = None

\* an entry of the errors log written by the analysis stage
IsAnalysisError(e) ==
    e[1] \in {"No weather data available for analysis", "Agent 2 failed"}

\* every provider that was tried failed, and at least one was tried
AllProvidersFail ==
    /\ \A s \in DataSource : providers[s].kind # "ok"
    /\ \E s \in DataSource : providers[s].kind = "error"

\* C1: once the collection stage has ended FAILED the analysis stage is not
\* entered: agent2_status is still PENDING and no analysis-stage error is in
\* the errors log.
C1_AnalysisSkippedAfterCollectionFailure ==
    (wf_pc \in {"agent2", "format", "returned"} /\ state.agent1_status = FAILED) =>
        /\ state.agent2_status = PENDING
        /\ \A i \in 1..Len(state.errors) : ~IsAnalysisError(state.errors[i])

\* C2: when every provider fails, the response returned by
\* get_weather_forecast has success = false, a collection-stage status FAILED
\* and a non-empty errors list, and weather_consensus, detailed_insights and
\* weather_report are still unset in the final state.
C2_AllProvidersFailResponse ==
    (Returned /\ AllProvidersFail) =>
        /\ response[1].success = FALSE
        /\ "agent1_status" \in response[1].keys
        /\ response[1].agent1_status = FAILED
        /\ response[1].errors # <<>>
        /\ state.weather_consensus = None
        /\ state.detailed_insights = None
        /\ state.weather_report = None

\* C2 witness: a request with three configured providers that all failed has
\* returned its response
C2_Witness ==
    /\ Returned
    /\ \A s \in DataSource : providers[s].kind = "error"
    /\ response[1].success = FALSE
    /\ Len(response[1].errors) >= 3

\* C3: when collection completed with at least one reading and the analysis
\* stage ended FAILED, the response reports the request as failed (success =
\* false) with the analysis-stage status FAILED, and still carries the output
\* of the collection stage.
C3_AnalysisFailureFailsRequest ==
    (/\ FormattedNormally
     /\ state.agent1_status = COMPLETED
     /\ state.raw_weather_data # <<>>
     /\ state.agent2_status = FAILED) =>
        /\ response[1].success = FALSE
        /\ response[1].agent2_status = FAILED
        /\ response[1].used = Len(state.raw_weather_data)
        /\ response[1].raw_data_preview # <<>>

\* C5: on a request whose collection and analysis stages both completed, the
\* narration stage has run before the response is built, and the response
\* carries the narration result and the narration-stage status.
C5_NarrationRunsBeforeResponse ==
    (/\ FormattedNormally
     /\ state.agent1_status = COMPLETED
     /\ state.agent2_status = COMPLETED) =>
        /\ state.agent3_status \in {COMPLETED, FAILED}
        /\ state.llm_response # None
        /\ "llm_response" \in response[1].keys
        /\ "agent3" \in response[1].status_keys

\* C6: a failure inside get_weather_forecast yields a response with success =
\* false, the request id, the stage statuses reached before the failure, and
\* an errors list made of the errors logged by the stages followed by the
\* failure message.
C6_FailureResponseKeepsPartialState ==
    (Returned /\ response[1].error # None) =>
        /\ response[1].success = FALSE
        /\ response[1].request_id = state.request_id
        /\ {"agent1", "agent2"} \subseteq response[1].status_keys
        /\ response[1].agent1_status = state.agent1_status
        /\ response[1].agent2_status = state.agent2_status
        /\ response[1].errors = Append(state.errors, <<"exception", response[1].error[1]>>)

(***************************************************************************)
(* LLMAgent (agents/llm_chat.py) and the LLM configuration                 *)
(***************************************************************************)
\* bound: the longest response text, in tokens
MaxTextLen == 4

\* _call_llm_with_retry(..., max_retries: int = 2)
max_retries == 2

\* get_best_available_client checks the providers in this order
LLMPriority  == <<"openai", "groq", "gemini">>
LLMProviders == {"openai", "groq", "gemini"}

\* LLMConfig.is_any_provider_available: some API key is set
is_any_provider_available(keys) == \E p \in LLMProviders : keys[p] # "nokey"

\* LLMClientFactory.get_best_available_client: the first provider, in
\* priority order, that has a client (a key) and whose client is available;
\* None when there is none
get_best_available_client(keys) ==
    LET usable == SelectSeq(LLMPriority, LAMBDA p : keys[p] = "ok")
    IN  IF usable = <<>> THEN None ELSE Some(Head(usable))

\* _initialize_llm_client: MultiProviderLLM(config) raises on
\* `self.client.provider_name` when there is no best client, and the agent
\* then keeps llm_client = None
_initialize_llm_client(keys) == get_best_available_client(keys)

\* A response text is a sequence of tokens: "{" and "}", "m" for a complete
\* member with a scalar value ("key": value), "k" for a key with its colon,
\* to be followed by an object, and "t" for any other text.
Tokens == {"{", "}", "m", "k", "t"}
Texts  == UNION { [1..n -> Tokens] : n \in 0..MaxTextLen }

\* json.loads on a text: position after the object starting at s[i], or 0
\* when there is no well-formed object there
RECURSIVE ParseObject(_, _), ParseMembers(_, _)
ParseObject(s, i) ==
    IF i > Len(s) \/ s[i] # "{" THEN 0 ELSE ParseMembers(s, i + 1)
ParseMembers(s, i) ==
    IF i > Len(s) THEN 0
    ELSE IF s[i] = "}" THEN i + 1
    ELSE IF s[i] = "m" THEN ParseMembers(s, i + 1)
    ELSE IF s[i] = "k"
         THEN LET j == ParseObject(s, i + 1)
              IN  IF j = 0 THEN 0 ELSE ParseMembers(s, j)
    ELSE 0

\* json.loads(s) returns (TRUE) or raises JSONDecodeError (FALSE)
JsonLoads(s) == s # <<>> /\ ParseObject(s, 1) = Len(s) + 1

\* str.find and str.rfind, 0-based, -1 when absent
Find(s, c) ==
    IF \E i \in 1..Len(s) : s[i] = c
    THEN (CHOOSE i \in 1..Len(s) : s[i] = c /\ \A j \in 1..(i - 1) : s[j] # c) - 1
    ELSE -1
RFind(s, c) ==
    IF \E i \in 1..Len(s) : s[i] = c
    THEN (CHOOSE i \in 1..Len(s) : s[i] = c /\ \A j \in (i + 1)..Len(s) : s[j] # c) - 1
    ELSE -1

\* s[a:b] for 0 <= a, 0 <= b <= len(s)
Slice(s, a, b) == SubSeq(s, a + 1, b)

LLMResponse(analysis, recs, answers, conf) ==
    [analysis |-> analysis, recommendations |-> recs, answers |-> answers,
     follow_up_questions |-> <<>>, confidence |-> conf]

Take5(q) == SubSeq(q, 1, IF Len(q) < 5 THEN Len(q) ELSE 5)

\* _generate_fallback_response; confidence 0.7 is carried in percent
_generate_fallback_response(report, q) ==
    LLMResponse(<<"Weather Analysis for", report.location, report.executive_summary>>,
                Take5(report.recommendations),
                (IF q.cold THEN {"temperature_concern"} ELSE {})
                    \cup (IF q.rain THEN {"precipitation_concern"} ELSE {}),
                70)

\* the LLMResponse built from the parsed object: its analysis is what the
\* object holds, the other fields are those of an object without those keys
ParsedResponse(obj) == LLMResponse(<<"json">> \o obj, <<>>, {}, 70)

\* _parse_llm_response
_parse_llm_response(text, report, q) ==
    LET json_start == Find(text, "{")
        json_end   == RFind(text, "}") + 1
    IN  IF json_start # -1 /\ json_end # 0
           /\ JsonLoads(Slice(text, json_start, json_end))
        THEN ParsedResponse(Slice(text, json_start, json_end))
        ELSE _generate_fallback_response(report, q)

\* the exceptions a call of llm_client.generate_response raises
LLMExceptions == {"LLMError", "TimeoutError"}

\* a retry loop that goes on after every failure
RetryAgain_Unbounded(n) == n < max_retries + 1

\* _call_llm_with_retry: `if attempt < max_retries` sleeps and tries again
RetryAgain(n) == n < max_retries

\* the weather reports handed to the narration stage
Reports ==
    { [location |-> "Hanoi", executive_summary |-> "Clear, 70F", recommendations |-> r] :
          r \in { <<>>, <<"r1", "r2", "r3", "r4", "r5", "r6">> } }

\* state.get("user_question", <default question>): the default question
\* contains neither "cold" nor "rain"
user_question_of(st) == st.user_question

\* the tail of analyze_with_llm: store the response, set COMPLETED, then
\* print self.llm_client.current_provider, which raises AttributeError when
\* llm_client is None; the except branch then sets FAILED and logs the error
FinishAnalysis(st, resp, client) ==
    IF client = None
    THEN [st EXCEPT !.llm_response  = Some(resp),
                    !.llm_analysis  = Some(resp.analysis),
                    !.agent3_status = FAILED,
                    !.errors = Append(@, <<"Agent 3 LLM analysis failed",
                                           "NoneType has no attribute current_provider">>)]
    ELSE [st EXCEPT !.llm_response  = Some(resp),
                    !.llm_analysis  = Some(resp.analysis),
                    !.agent3_status = COMPLETED]

\* analyze_with_llm up to the first call of the LLM: PROCESSING, the check of
\* the report, and _generate_llm_response's choice between the LLM and the
\* fallback
AnalyzeBegin ==
    /\ llm_pc = "idle"
    /\ errors_before' = state.errors
    /\ IF state.weather_report = None
       THEN /\ state' = [state EXCEPT
                            !.agent3_status = FAILED,
                            !.errors = Append(@, <<"No weather report available for LLM analysis", "">>)]
            /\ llm_pc' = "done"
       ELSE IF llm_client # None /\ is_any_provider_available(llm_keys)
       THEN /\ state' = [state EXCEPT !.agent3_status = PROCESSING]
            /\ llm_pc' = "calling"
       ELSE /\ state' = FinishAnalysis(state,
                            _generate_fallback_response(state.weather_report[1],
                                                        user_question_of(state)),
                            llm_client)
            /\ llm_pc' = "done"
    /\ attempt' = 0
    /\ UNCHANGED <<llm_keys, llm_client, llm_calls, response_text, last_exc,
                   retry_outcome, fetch_vars, wf_vars, rep_vars, calc_vars, mp_vars>>

\* one iteration of _call_llm_with_retry whose call returns a text (or None):
\* the text is parsed and the analysis ends
LLMCallReturns ==
    /\ llm_pc = "calling"
    /\ llm_calls' = llm_calls + 1
    /\ \/ \E text \in Texts :
             /\ response_text' = Some(text)
             /\ retry_outcome' = Some([kind |-> "returned", value |-> Some(text)])
             /\ state' = FinishAnalysis(state,
                             _parse_llm_response(text, state.weather_report[1],
                                                 user_question_of(state)),
                             llm_client)
       \/ \* the client returned None: response_text.find raises, and
          \* _generate_llm_response falls back
          /\ response_text' = None
          /\ retry_outcome' = Some([kind |-> "returned", value |-> None])
          /\ state' = FinishAnalysis(state,
                          _generate_fallback_response(state.weather_report[1],
                                                      user_question_of(state)),
                          llm_client)
    /\ llm_pc' = "done"
    /\ UNCHANGED <<llm_keys, llm_client, attempt, last_exc, errors_before, fetch_vars,
                   wf_vars, rep_vars, calc_vars, mp_vars>>

\* one iteration whose call raises: retry after the sleep, or, on the last
\* attempt, re-raise into _generate_llm_response, which falls back
LLMCallRaises ==
    /\ llm_pc = "calling"
    /\ llm_calls' = llm_calls + 1
    /\ \E e \in LLMExceptions :
          /\ last_exc' = Some(e)
          /\ IF RetryAgain(attempt)
             THEN /\ attempt' = attempt + 1
                  /\ UNCHANGED <<state, llm_pc, retry_outcome>>
             ELSE /\ retry_outcome' = Some([kind |-> "raised", value |-> Some(e)])
                  /\ state' = FinishAnalysis(state,
                                  _generate_fallback_response(state.weather_report[1],
                                                              user_question_of(state)),
                                  llm_client)
                  /\ llm_pc' = "done"
                  /\ UNCHANGED attempt
    /\ UNCHANGED <<llm_keys, llm_client, response_text, errors_before, fetch_vars, wf_vars,
                   rep_vars, calc_vars, mp_vars>>

\* LLMAgent.__init__ for every configuration of the API keys, and a state as
\* the analysis stage leaves it: with a weather report, or FAILED without
\* one and with its error in the log
LLMInit ==
    /\ llm_keys \in [LLMProviders -> {"nokey", "unusable", "ok"}]
    /\ llm_client = _initialize_llm_client(llm_keys)
    /\ llm_pc = "idle"
    /\ attempt = 0
    /\ llm_calls = 0
    /\ response_text = None
    /\ last_exc = None
    /\ retry_outcome = None
    /\ errors_before = <<>>
    /\ \E rep \in {None} \cup { Some(r) : r \in Reports }, q \in Questions,
          errs \in { <<>>, <<<<"openweather", "fetch failed">>>> } :
          state = [IdleState EXCEPT !.agent1_status = COMPLETED,
                                    !.agent2_status = IF rep = None THEN FAILED ELSE COMPLETED,
                                    !.weather_report = rep,
                                    !.user_question = q,
                                    !.errors = IF rep = None
                                               THEN Append(errs, "No weather data to analyze")
                                               ELSE errs]
    /\ FetchIdle
    /\ WorkflowIdle
    /\ ReportIdle
    /\ MPIdle
    /\ CalcIdle

LLMNext ==
    \/ AnalyzeBegin
    \/ LLMCallReturns
    \/ LLMCallRaises

LLMSpec == LLMInit /\ [][LLMNext]_vars

(***************************************************************************)
(* Claims about the narration stage                                        *)
(***************************************************************************)
\* C4: for every state that holds a weather report, analyze_with_llm ends
\* with agent3_status COMPLETED, llm_response set and no error appended,
\* whatever the narration side does (no client, no provider, every call
\* raising, malformed text).
C4_NarrationNeverFails ==
    (llm_pc = "done" /\ state.weather_report # None) =>
        /\ state.agent3_status = COMPLETED
        /\ state.llm_response # None
        /\ state.errors = errors_before

\* the first balanced {...} substring of a text: from the first "{" to the
\* "}" that closes it; <<>> when there is none
Depth(s, i, j) ==
    Cardinality({ k \in i..j : s[k] = "{" }) - Cardinality({ k \in i..j : s[k] = "}" })
FirstBalanced(s) ==
    IF Find(s, "{") = -1 THEN <<>>
    ELSE LET i == Find(s, "{") + 1
             closing == { j \in i..Len(s) : Depth(s, i, j) = 0 }
         IN  IF closing = {} THEN <<>>
             ELSE SubSeq(s, i, CHOOSE j \in closing : \A k \in closing : j <= k)

\* C21: the result of _parse_llm_response comes from the first balanced
\* {...} substring of the response text whenever that substring is a
\* well-formed JSON object, even when other text or further brace groups
\* follow it; in every other case the templated fallback is the result; and
\* the narration step does not fail.
C21_FirstBalancedObjectIsParsed ==
    (llm_pc = "done" /\ response_text # None) =>
        LET text == response_text[1]
            fallback == _generate_fallback_response(state.weather_report[1],
                                                    user_question_of(state))
        IN  /\ state.agent3_status = COMPLETED
            /\ state.llm_response =
                   Some(IF JsonLoads(FirstBalanced(text))
                        THEN ParsedResponse(FirstBalanced(text))
                        ELSE fallback)

\* C24: _call_llm_with_retry calls the LLM client at most max_retries + 1
\* times; it stops at the first call that succeeds and returns that call's
\* text, all earlier calls having failed; and when it raises, it has made
\* max_retries + 1 calls and raises the exception of the last one.
C24_BoundedRetry ==
    /\ llm_calls <= max_retries + 1
    /\ retry_outcome # None =>
          /\ llm_pc = "done"
          /\ IF retry_outcome[1].kind = "returned"
             THEN /\ llm_calls = attempt + 1
                  /\ retry_outcome[1].value = response_text
             ELSE /\ llm_calls = max_retries + 1
                  /\ attempt = max_retries
                  /\ retry_outcome[1].value = last_exc

\* the third call failed after two failures and its exception was raised
C24_Witness ==
    /\ retry_outcome # None
    /\ retry_outcome[1].kind = "raised"
    /\ llm_calls = 3

(***************************************************************************)
(* The consensus arithmetic of DataAcquisitonAgent                         *)
(*                                                                         *)
(* A float that the code obtains by a division is carried as the exact     *)
(* fraction <<numerator, denominator>> with a positive denominator.        *)
(***************************************************************************)
Rat(n, d)    == <<n, d>>
RatEq(a, b)  == a[1] * b[2] = b[1] * a[2]
RatLess(a, b) == a[1] * b[2] < b[1] * a[2]

Min2(a, b) == IF a < b THEN a ELSE b

RECURSIVE SumOver(_, _)
\* sum(f[x] for x in S)
SumOver(f, S) ==
    IF S = {} THEN 0
    ELSE LET x == CHOOSE y \in S : TRUE IN f[x] + SumOver(f, S \ {x})

\* the readings the consensus is exercised with: temperature, a humidity/wind
\* pair, the condition bucket and the optional wind gust (when reported, 10
\* mph above the wind speed)
CTemps     == {70, 72, 74, 76}
CHumWind   == { <<45, 8>>, <<50, 10>>, <<55, 12>> }
CReading(src, t, hw, c, gusty) ==
    [source |-> src, temperature |-> t, humidity |-> hw[1], wind_speed |-> hw[2],
     conditions |-> c, wind_gust |-> IF gusty THEN Some(hw[2] + 10) ELSE None,
     error |-> None]
CReadings(src) ==
    { CReading(src, t, hw, c, g) : t \in CTemps, hw \in CHumWind, c \in Conds, g \in BOOLEAN }

\* what fetch_all_sources can have stored for a source: nothing (the client
\* is not available), a failure, or a success with its reading
CResults(src) ==
    {None, Some(SourceResult(src, None, FALSE, Some("API request failed")))}
    \cup { Some(SourceResult(src, Some(d), TRUE, None)) : d \in CReadings(src) }

\* the reliability weights of _get_source_weights, in hundredths
BaseWeights ==
    [s \in DataSource |->
        CASE s = OPENWEATHER -> 35 [] s = WEATHERAPI -> 30 [] OTHER -> 25]

\* _get_source_weights: weights[s] / total_weight for the available sources.
\* The quotient is carried by its numerator; the common denominator
\* total_weight cancels in every total / weight_sum of _weighted_average.
_get_source_weights(available) == [s \in available |-> BaseWeights[s]]

\* _weighted_average dividing by the weights of all available sources
_weighted_average_AllWeights(values, sources, weights) ==
    LET n     == Min2(Len(values), Len(sources))
        valid == { i \in 1..n : values[i] # None }
    IN  IF Len(values) = 0 \/ valid = {} THEN Rat(0, 1)
        ELSE Rat(SumOver([i \in valid |-> values[i][1] * weights[sources[i]]], valid),
                 SumOver(weights, DOMAIN weights))

\* _weighted_average(values, sources): values is a list of Optional numbers,
\* sources a list of sources; zip pairs them position by position and stops
\* at the shorter list
_weighted_average(values, sources, weights) ==
    LET n     == Min2(Len(values), Len(sources))
        valid == { i \in 1..n : values[i] # None }
    IN  IF Len(values) = 0 \/ valid = {} THEN Rat(0, 1)
        ELSE IF \A i \in valid : sources[i] \in DOMAIN weights
        THEN LET total      == SumOver([i \in valid |-> values[i][1] * weights[sources[i]]], valid)
                 weight_sum == SumOver([i \in valid |-> weights[sources[i]]], valid)
             IN  IF weight_sum > 0 THEN Rat(total, weight_sum)
                 ELSE Rat(SumOver([i \in valid |-> values[i][1]], valid), Cardinality(valid))
        ELSE Rat(SumOver([i \in valid |-> values[i][1]], valid), Cardinality(valid))

\* floor of the square root, by bisection on lo*lo <= x < hi*hi
RECURSIVE IsqrtIn(_, _, _)
IsqrtIn(x, lo, hi) ==
    IF hi - lo <= 1 THEN lo
    ELSE LET mid == (lo + hi) \div 2
         IN  IF mid <= x \div mid THEN IsqrtIn(x, mid, hi) ELSE IsqrtIn(x, lo, mid)
Isqrt(x) == IF x = 0 THEN 0 ELSE IsqrtIn(x, 0, x + 1)

\* sum(values) and sum(v*v for v in values) of a list of numbers
ListSum(values)   == SumOver(values, DOMAIN values)
ListSumSq(values) == SumOver([i \in DOMAIN values |-> values[i] * values[i]], DOMAIN values)

\* cv(values) of _calculate_confidence, in thousandths rounded down:
\* statistics.stdev(values) / statistics.mean(values), where
\* stdev^2 = (n*sum(v^2) - sum(v)^2) / (n*(n-1)) and mean = sum(v)/n
cv(values) ==
    LET n  == Len(values)
        sm == ListSum(values)
    IN  IF n = 0 \/ sm = 0 \/ n = 1 THEN 0
        ELSE Isqrt((1000000 * n * (n * ListSumSq(values) - sm * sm))
                       \div ((n - 1) * sm * sm))

Max2(a, b) == IF a > b THEN a ELSE b

\* _calculate_confidence: 0.5 below two sources; otherwise the weighted sum of
\* the three agreement terms (each in thousandths), times min(1, n/3), clamped
\* to [0, 1]
_calculate_confidence(temperatures, wind_speeds, humidities) ==
    IF Len(temperatures) < 2 THEN Rat(1, 2)
    ELSE LET temp_confidence     == Max2(0, 1000 - cv(temperatures) * 10)
             wind_confidence     == Max2(0, 1000 - cv(wind_speeds) * 5)
             humidity_confidence == Max2(0, 1000 - cv(humidities) * 2)
             tenK == temp_confidence * 4 + wind_confidence * 3 + humidity_confidence * 3
             n3   == Min2(3, Len(temperatures))
         IN  Rat(Min2(30000, Max2(0, tenK * n3)), 30000)

ListMax(values) == SetMax({ values[i] : i \in DOMAIN values })
ListMin(values) == SetMin({ values[i] : i \in DOMAIN values })

\* _check_disagreements flagging a temperature spread of 4 F or more
_check_disagreements_AtFour(succ, data) ==
    IF Len(succ) < 2 THEN <<>>
    ELSE LET temps == [i \in 1..Len(succ) |-> data[succ[i]].temperature]
         IN  IF ListMax(temps) - ListMin(temps) >= 4
             THEN << [kind |-> "Temperature disagreement",
                      listed |-> [i \in 1..Len(succ) |-> <<succ[i], temps[i]>>]] >>
             ELSE <<>>

\* _check_disagreements over the successful sources (in dict order) and their
\* readings; an entry is its kind and the value listed for every source
_check_disagreements(succ, data) ==
    IF Len(succ) < 2 THEN <<>>
    ELSE LET temps == [i \in 1..Len(succ) |-> data[succ[i]].temperature]
             conds == [i \in 1..Len(succ) |-> data[succ[i]].conditions]
         IN  (IF ListMax(temps) - ListMin(temps) > 5
              THEN << [kind |-> "Temperature disagreement",
                       listed |-> [i \in 1..Len(succ) |-> <<succ[i], temps[i]>>]] >>
              ELSE <<>>)
             \o
             (IF Cardinality({ conds[i] : i \in 1..Len(succ) }) > 1
              THEN << [kind |-> "Condition disagreement",
                       listed |-> [i \in 1..Len(succ) |-> <<succ[i], conds[i]>>]] >>
              ELSE <<>>)

\* the number of occurrences of x in a list
Count(items, x) == Cardinality({ i \in DOMAIN items : items[i] = x })

\* _most_common choosing, among the most frequent values, the one seen last
_most_common_LastSeen(items) ==
    IF items = <<>> THEN "Unknown"
    ELSE items[CHOOSE i \in DOMAIN items :
                 /\ \A j \in DOMAIN items : Count(items, items[j]) <= Count(items, items[i])
                 /\ \A j \in (i + 1)..Len(items) : Count(items, items[j]) < Count(items, items[i])]

\* _most_common: Counter(items).most_common(1)[0][0] is the first key, in
\* order of first occurrence, among those with the highest count
_most_common(items) ==
    IF items = <<>> THEN "Unknown"
    ELSE items[CHOOSE i \in DOMAIN items :
                 /\ \A j \in DOMAIN items : Count(items, items[j]) <= Count(items, items[i])
                 /\ \A j \in 1..(i - 1) : Count(items, items[j]) < Count(items, items[i])]

\* [f(d) for d in successful_results.values()] as a list of Optional numbers
FieldList(succ, data, field) == [i \in 1..Len(succ) |-> Some(data[succ[i]][field])]

\* [d.wind_gust for d in successful_results.values() if d.wind_gust is not None]
ReportedGusts(succ, data) ==
    LET reporting == SelectSeq(succ, LAMBDA s : data[s].wind_gust # None)
    IN  [i \in 1..Len(reporting) |-> data[reporting[i]].wind_gust]

Plain(values) == [i \in DOMAIN values |-> values[i][1]]

\* calculate_consensus with its aggregates: the ValueError and the fields
\* temp_min, temp_max, sources_used, total_sources and source_details are
\* those of calculate_consensus above; the weighted means, the modes, the
\* confidence and the disagreements are computed from the successful readings
ConsensusData(all_results, total, weights) ==
    LET base == calculate_consensus(all_results, total)
        succ == SuccessfulSources(all_results)
        data == [s \in { succ[i] : i \in 1..Len(succ) } |-> all_results[s][1].data[1]]
        temperatures == FieldList(succ, data, "temperature")
        humidities   == FieldList(succ, data, "humidity")
        wind_speeds  == FieldList(succ, data, "wind_speed")
        conditions   == [i \in 1..Len(succ) |-> data[succ[i]].conditions]
    IN  IF base.raised
        THEN [raised |-> TRUE, error |-> base.error,
              temperature |-> Rat(0, 1), humidity |-> Rat(0, 1), wind_speed |-> Rat(0, 1),
              wind_gust |-> Rat(0, 1), conditions |-> "Unknown",
              confidence |-> Rat(0, 1), disagreements |-> <<>>,
              temp_min |-> 0, temp_max |-> 0, sources_used |-> 0,
              total_sources |-> total, source_details |-> NoResults]
        ELSE [raised |-> FALSE, error |-> "",
              temperature |-> _weighted_average(temperatures, succ, weights),
              humidity    |-> _weighted_average(humidities, succ, weights),
              wind_speed  |-> _weighted_average(wind_speeds, succ, weights),
              wind_gust   |-> _weighted_average(ReportedGusts(succ, data), succ, weights),
              conditions  |-> _most_common(conditions),
              confidence  |-> _calculate_confidence(Plain(temperatures), Plain(wind_speeds),
                                                    Plain(humidities)),
              disagreements |-> _check_disagreements(succ, data),
              temp_min |-> base.temp_min, temp_max |-> base.temp_max,
              sources_used |-> base.sources_used, total_sources |-> base.total_sources,
              source_details |-> base.source_details]

\* calculate_consensus(all_results) on what fetch_all_sources returned
CalculateConsensus ==
    /\ f_pc = "fetched"
    /\ consensus' = Some(ConsensusData(results, Len(clients),
                                       _get_source_weights(AvailableSet)))
    /\ f_pc' = "consensus"
    /\ UNCHANGED <<clients, is_available, behaviour, results, f_idx, summary,
                   state, wf_vars, llm_vars, rep_vars, calc_vars, mp_vars>>

\* the agent after fetch_all_sources has returned: a source has a result
\* exactly when its client is available, and WeatherAPI and Visual Crossing
\* are configured exactly when they are available
ConsensusInit ==
    /\ \E ow \in CResults(OPENWEATHER), wa \in CResults(WEATHERAPI),
          vc \in CResults(VISUAL_CROSSING) :
          results = [s \in DataSource |->
                        CASE s = OPENWEATHER -> ow [] s = WEATHERAPI -> wa [] OTHER -> vc]
    /\ is_available = [s \in DataSource |-> results[s] # None]
    /\ clients = InitialClients(is_available[WEATHERAPI], is_available[VISUAL_CROSSING])
    /\ behaviour = [s \in DataSource |->
                      [kind |-> "hang", data |-> WeatherData(s, 0, "", None), exc |-> ""]]
    /\ f_pc = "fetched"
    /\ f_idx = Len(clients) + 1
    /\ summary = None
    /\ consensus = None
    /\ state = IdleState
    /\ WorkflowIdle
    /\ LLMIdle
    /\ ReportIdle
    /\ MPIdle
    /\ CalcIdle

ConsensusNext == CalculateConsensus

ConsensusSpec == ConsensusInit /\ [][ConsensusNext]_vars

(***************************************************************************)
(* Claims about the consensus                                              *)
(***************************************************************************)
ConsensusDone == f_pc = "consensus"

\* the sources whose result has success = true and data present
Succeeded == { s \in DataSource :
                 results[s] # None /\ results[s][1].success /\ results[s][1].data # None }
ReadingOf(s) == results[s][1].data[1]

\* the mean of a field over the sources of S, each weighted with its weight
WeightedMeanOver(S, field) ==
    Rat(SumOver([s \in S |-> ReadingOf(s)[field] * BaseWeights[s]], S),
        SumOver([s \in S |-> BaseWeights[s]], S))

\* C11: calculate_consensus aggregates exactly the results with success = true
\* and data present: without one it raises the insufficient-data error; with
\* some, sources_used is their number, source_details holds exactly their
\* sources, and temperature, humidity and wind speed are the weighted means
\* over them alone, so that a failed result contributes to no aggregate.
C11_ConsensusOverSuccessfulOnly ==
    ConsensusDone =>
        IF Succeeded = {}
        THEN consensus[1].raised /\ consensus[1].error = NoSuccessfulSources
        ELSE /\ ~consensus[1].raised
             /\ consensus[1].sources_used = Cardinality(Succeeded)
             /\ \A s \in DataSource :
                   consensus[1].source_details[s] # None <=> s \in Succeeded
             /\ \A s \in Succeeded : consensus[1].source_details[s] = Some(ReadingOf(s))
             /\ RatEq(consensus[1].temperature, WeightedMeanOver(Succeeded, "temperature"))
             /\ RatEq(consensus[1].humidity, WeightedMeanOver(Succeeded, "humidity"))
             /\ RatEq(consensus[1].wind_speed, WeightedMeanOver(Succeeded, "wind_speed"))
             /\ consensus[1].temp_min = SetMin({ ReadingOf(s).temperature : s \in Succeeded })
             /\ consensus[1].temp_max = SetMax({ ReadingOf(s).temperature : s \in Succeeded })

\* C11 witness: one source failed, two succeeded with different temperatures,
\* and the consensus was computed from the two
C11_Witness ==
    /\ ConsensusDone
    /\ results[OPENWEATHER] # None /\ ~results[OPENWEATHER][1].success
    /\ Succeeded = {WEATHERAPI, VISUAL_CROSSING}
    /\ ReadingOf(WEATHERAPI).temperature # ReadingOf(VISUAL_CROSSING).temperature
    /\ consensus[1].sources_used = 2

\* the successful readings agree on every aggregated value
IdenticalReadings ==
    /\ Succeeded # {}
    /\ \A s, t \in Succeeded :
          /\ ReadingOf(s).temperature = ReadingOf(t).temperature
          /\ ReadingOf(s).humidity    = ReadingOf(t).humidity
          /\ ReadingOf(s).wind_speed  = ReadingOf(t).wind_speed
          /\ ReadingOf(s).conditions  = ReadingOf(t).conditions

\* C12: for every non-empty set of successful readings with identical values
\* (one, two or three sources), every consensus mean equals the common value,
\* the confidence is at least 0.9 and the disagreements list is empty.
C12_IdenticalReadingsFullConfidence ==
    (ConsensusDone /\ IdenticalReadings) =>
        \A s \in Succeeded :
            /\ RatEq(consensus[1].temperature, Rat(ReadingOf(s).temperature, 1))
            /\ RatEq(consensus[1].humidity, Rat(ReadingOf(s).humidity, 1))
            /\ RatEq(consensus[1].wind_speed, Rat(ReadingOf(s).wind_speed, 1))
            /\ ~RatLess(consensus[1].confidence, Rat(9, 10))
            /\ consensus[1].disagreements = <<>>

\* the successful sources that reported a wind gust
GustReporters == { s \in Succeeded : ReadingOf(s).wind_gust # None }

\* C14: the consensus of an optional field (the wind gust) is the weighted
\* mean over exactly the successful sources that reported it, each value
\* weighted with the weight of the source that reported it; a source without
\* the field contributes neither a value nor its weight.
C14_OptionalFieldWeightedByReporter ==
    (ConsensusDone /\ GustReporters # {}) =>
        RatEq(consensus[1].wind_gust,
              Rat(SumOver([s \in GustReporters |-> ReadingOf(s).wind_gust[1] * BaseWeights[s]],
                          GustReporters),
                  SumOver([s \in GustReporters |-> BaseWeights[s]], GustReporters)))

(***************************************************************************)
(* _circular_mean.  Angles are whole degrees; math.sin and math.cos are    *)
(* carried in ten-thousandths, rounded to the nearest; the result is the   *)
(* nearest whole degree.  The conversions angle * 3.14159 / 180 and        *)
(* mean_rad * 180 / 3.14159 use the same constant and shift a result by    *)
(* less than a thousandth of a degree.                                     *)
(***************************************************************************)
\* bound: the longest list of wind directions
MaxDirections == 2

\* sin(k degrees) * 10000 for k = 0..90, at index k + 1
SinTable ==
    <<0, 175, 349, 523, 698, 872, 1045, 1219, 1392, 1564, 1736, 1908, 2079, 2250,
      2419, 2588, 2756, 2924, 3090, 3256, 3420, 3584, 3746, 3907, 4067, 4226, 4384,
      4540, 4695, 4848, 5000, 5150, 5299, 5446, 5592, 5736, 5878, 6018, 6157, 6293,
      6428, 6561, 6691, 6820, 6947, 7071, 7193, 7314, 7431, 7547, 7660, 7771, 7880,
      7986, 8090, 8192, 8290, 8387, 8480, 8572, 8660, 8746, 8829, 8910, 8988, 9063,
      9135, 9205, 9272, 9336, 9397, 9455, 9511, 9563, 9613, 9659, 9703, 9744, 9781,
      9816, 9848, 9877, 9903, 9925, 9945, 9962, 9976, 9986, 9994, 9998, 10000>>

\* math.sin and math.cos of an angle given in degrees
SinDeg(a) ==
    LET b == a % 360
    IN  IF b <= 90 THEN SinTable[b + 1]
        ELSE IF b <= 180 THEN SinTable[180 - b + 1]
        ELSE IF b <= 270 THEN 0 - SinTable[b - 180 + 1]
        ELSE 0 - SinTable[360 - b + 1]
CosDeg(a) == SinDeg(a + 90)

Abs(x) == IF x < 0 THEN 0 - x ELSE x

\* math.atan2(y, x) in whole degrees, in -180..180: the angle in the first
\* quadrant of (|x|, |y|), found by comparing tangents, taken to the nearer
\* of the two neighbouring degrees and reflected into the quadrant of (x, y)
Atan2Deg(y, x) ==
    LET ax    == Abs(x)
        ay    == Abs(y)
        floor == Cardinality({ k \in 1..90 : SinDeg(k) * ax <= CosDeg(k) * ay })
        near  == IF floor < 90 /\ ax * CosDeg(floor + 1) + ay * SinDeg(floor + 1)
                                   > ax * CosDeg(floor) + ay * SinDeg(floor)
                 THEN floor + 1 ELSE floor
    IN  IF x >= 0 /\ y >= 0 THEN near
        ELSE IF x < 0 /\ y >= 0 THEN 180 - near
        ELSE IF x < 0 THEN near - 180
        ELSE 0 - near

\* the sums of the sines and of the cosines of a list of angles
SinSum(angles) == SumOver([i \in DOMAIN angles |-> SinDeg(angles[i])], DOMAIN angles)
CosSum(angles) == SumOver([i \in DOMAIN angles |-> CosDeg(angles[i])], DOMAIN angles)

\* _circular_mean: atan2 of the mean sine and the mean cosine (the division by
\* len(angles) does not change the angle), taken modulo 360
_circular_mean_Arithmetic(angles) ==
    IF angles = <<>> THEN 0 ELSE ListSum(angles) \div Len(angles)

_circular_mean(angles) ==
    IF angles = <<>> THEN 0 ELSE Atan2Deg(SinSum(angles), CosSum(angles)) % 360

\* the unit vectors cancel: the sums hold nothing but the rounding of the
\* sines, and the angle the code returns is decided by that rounding
Cancelling(angles) ==
    angles # <<>> /\ Abs(SinSum(angles)) <= Len(angles) /\ Abs(CosSum(angles)) <= Len(angles)

Directions     == { 10 * k : k \in 0..36 }
DirectionLists == UNION { [1..n -> Directions] : n \in 0..MaxDirections }

\* a call _circular_mean(angles)
CircularMeanCall ==
    /\ calc_pc = "call"
    /\ IF Cancelling(calc_args)
       THEN calc_ret' \in { Some(d) : d \in 0..359 }
       ELSE calc_ret' = Some(_circular_mean(calc_args))
    /\ calc_pc' = "return"
    /\ UNCHANGED <<calc_args, hash_seed, fetch_vars, state, wf_vars, llm_vars, rep_vars, mp_vars>>

CircularInit ==
    /\ calc_pc = "call"
    /\ calc_args \in DirectionLists
    /\ calc_ret = <<>>
    /\ hash_seed = 0
    /\ state = IdleState
    /\ FetchIdle
    /\ WorkflowIdle
    /\ LLMIdle
    /\ ReportIdle
    /\ MPIdle

CircularNext == CircularMeanCall

CircularSpec == CircularInit /\ [][CircularNext]_vars

\* C15: for every non-empty list of directions _circular_mean returns a value
\* in [0, 360) that is the direction of the sum of the unit vectors at the
\* angles (to the degree: the sum has a positive component along the returned
\* direction and at most tan(2 degrees) of it across); for <<350, 10>> the
\* result is within a degree of north.
C15_CircularMeanIsVectorDirection ==
    (calc_pc = "return" /\ calc_args # <<>>) =>
        LET r     == calc_ret[1]
            along == CosSum(calc_args) * CosDeg(r) + SinSum(calc_args) * SinDeg(r)
            cross == SinSum(calc_args) * CosDeg(r) - CosSum(calc_args) * SinDeg(r)
        IN  /\ r \in 0..359
            /\ ~Cancelling(calc_args) => (along > 0 /\ Abs(cross) <= along \div 28)
            /\ calc_args = <<350, 10>> => r \in {359, 0, 1}

\* C15 witness: the mean of 350 and 10 has been computed and is north
C15_Witness ==
    /\ calc_pc = "return"
    /\ calc_args = <<350, 10>>
    /\ calc_ret = Some(0)

(***************************************************************************)
(* The mode of the condition texts: _most_common and                       *)
(* ReportAgent._analyze_conditions                                         *)
(***************************************************************************)
\* bound: the longest list of readings whose conditions are aggregated
MaxConditions == 3

ConditionTexts == {"Clear", "Clouds", "Rain", "Snow"}
ConditionLists == UNION { [1..n -> ConditionTexts] : n \in 0..MaxConditions }

\* _analyze_conditions on the conditions of raw_data: the dict `conditions`
\* counts every value and keeps them in order of first occurrence; max over
\* its items returns the first item with the highest count; the division by
\* len(raw_data) raises for an empty list
_analyze_conditions(items) ==
    IF items = <<>>
    THEN [raised |-> TRUE, primary |-> "Unknown", confidence |-> Rat(0, 1)]
    ELSE LET first == CHOOSE i \in DOMAIN items :
                        /\ \A j \in DOMAIN items :
                              Count(items, items[j]) <= Count(items, items[i])
                        /\ \A j \in 1..(i - 1) :
                              Count(items, items[j]) < Count(items, items[i])
         IN  [raised |-> FALSE, primary |-> items[first],
              confidence |-> Rat(Count(items, items[first]), Len(items))]

\* the conditions of the readings are aggregated by the collector and by the
\* report agent
ConditionsModeCall ==
    /\ calc_pc = "call"
    /\ calc_ret' = Some([consensus_conditions |-> _most_common(calc_args),
                         analysis |-> _analyze_conditions(calc_args)])
    /\ calc_pc' = "return"
    /\ UNCHANGED <<calc_args, hash_seed, fetch_vars, state, wf_vars, llm_vars, rep_vars, mp_vars>>

ModeInit ==
    /\ calc_pc = "call"
    /\ calc_args \in ConditionLists
    /\ calc_ret = <<>>
    /\ hash_seed = 0
    /\ state = IdleState
    /\ FetchIdle
    /\ WorkflowIdle
    /\ LLMIdle
    /\ ReportIdle
    /\ MPIdle

ModeNext == ConditionsModeCall

ModeSpec == ModeInit /\ [][ModeNext]_vars

\* the position of the first occurrence of x in a list that contains it
FirstSeen(items, x) == CHOOSE i \in DOMAIN items : items[i] = x /\ \A j \in 1..(i - 1) : items[j] # x

\* C16: the consensus condition is a most frequent value among the readings;
\* among several most frequent values it is the one seen first; and the
\* condition confidence is its number of occurrences divided by the number of
\* readings.
C16_ModeWithFirstSeenTieBreak ==
    (calc_pc = "return" /\ calc_args # <<>>) =>
        LET m      == calc_ret[1].consensus_conditions
            values == { calc_args[i] : i \in DOMAIN calc_args }
        IN  /\ m \in values
            /\ \A x \in values :
                  /\ Count(calc_args, x) <= Count(calc_args, m)
                  /\ (Count(calc_args, x) = Count(calc_args, m) /\ x # m)
                        => FirstSeen(calc_args, m) < FirstSeen(calc_args, x)
            /\ ~calc_ret[1].analysis.raised
            /\ calc_ret[1].analysis.primary = m
            /\ RatEq(calc_ret[1].analysis.confidence,
                     Rat(Count(calc_args, m), Len(calc_args)))

\* C16 witness: three different conditions tie and the first one is chosen
\* with confidence 1/3
C16_Witness ==
    /\ calc_pc = "return"
    /\ calc_args = <<"Rain", "Clear", "Snow">>
    /\ calc_ret[1].consensus_conditions = "Rain"
    /\ calc_ret[1].analysis.confidence = Rat(1, 3)

\* C17: with two or more successful sources the disagreements list holds a
\* temperature entry exactly when the highest source temperature exceeds the
\* lowest by more than 5 F, and a condition entry exactly when more than one
\* distinct condition appears; each entry lists the value of every successful
\* source; below two sources the list is empty.
C17_DisagreementsIffSpread ==
    (ConsensusDone /\ Succeeded # {}) =>
        LET d     == consensus[1].disagreements
            temps == { ReadingOf(s).temperature : s \in Succeeded }
            conds == { ReadingOf(s).conditions : s \in Succeeded }
            Has(kind) == \E i \in DOMAIN d : d[i].kind = kind
        IN  IF Cardinality(Succeeded) < 2 THEN d = <<>>
            ELSE /\ Has("Temperature disagreement") <=> SetMax(temps) - SetMin(temps) > 5
                 /\ Has("Condition disagreement") <=> Cardinality(conds) > 1
                 /\ \A i \in DOMAIN d :
                       /\ d[i].kind = "Temperature disagreement" =>
                             { d[i].listed[j] : j \in DOMAIN d[i].listed }
                                 = { <<s, ReadingOf(s).temperature>> : s \in Succeeded }
                       /\ d[i].kind = "Condition disagreement" =>
                             { d[i].listed[j] : j \in DOMAIN d[i].listed }
                                 = { <<s, ReadingOf(s).conditions>> : s \in Succeeded }

\* C17 witness: two successful sources at 70 and 76 F give a temperature entry
C17_Witness ==
    /\ ConsensusDone
    /\ Cardinality(Succeeded) = 2
    /\ { ReadingOf(s).temperature : s \in Succeeded } = {70, 76}
    /\ \E i \in DOMAIN consensus[1].disagreements :
          consensus[1].disagreements[i].kind = "Temperature disagreement"

(***************************************************************************)
(* ReportAgent._calculate_comfort_index.  The three scores are carried in   *)
(* tenths, the comfort index in hundredths.                                *)
(***************************************************************************)
ComfortTemps      == 25..97
ComfortHumidities == { 5 * k : k \in 2..19 }
ComfortWinds      == 0..36

\* the arguments are means of up to three readings (statistics.mean); they
\* are carried in sixths of a unit so that every such mean is an integer
MeanScale == 6

\* temp, humidity and wind_speed in sixths of a unit; the three scores are in
\* sixtieths and comfort_index in six-hundredths (100.0 is 60000)
_calculate_comfort_index(temp, humidity, wind_speed) ==
    LET temp_score ==
            IF 68 * MeanScale <= temp /\ temp <= 72 * MeanScale THEN 6000
            ELSE IF temp < 32 * MeanScale
                THEN Max2(0, 6000 - (32 * MeanScale - temp) * 30)
            ELSE IF temp > 90 * MeanScale
                THEN Max2(0, 6000 - (temp - 90 * MeanScale) * 20)
            ELSE 6000 - Abs(temp - 70 * MeanScale) * 20
        humidity_score ==
            IF 40 * MeanScale <= humidity /\ humidity <= 60 * MeanScale THEN 6000
            ELSE 6000 - Abs(humidity - 50 * MeanScale) * 15
        wind_score ==
            IF 5 * MeanScale <= wind_speed /\ wind_speed <= 15 * MeanScale THEN 6000
            ELSE IF wind_speed > 30 * MeanScale
                THEN Max2(0, 6000 - (wind_speed - 30 * MeanScale) * 30)
            ELSE 6000 - Abs(wind_speed - 10 * MeanScale) * 50
        comfort == Max2(0, Min2(60000, temp_score * 5 + humidity_score * 3 + wind_score * 2))
    IN  [comfort |-> comfort,
         level   |-> IF comfort >= 48000 THEN "Very Comfortable"
                     ELSE IF comfort >= 36000 THEN "Comfortable"
                     ELSE IF comfort >= 24000 THEN "Moderate"
                     ELSE IF comfort >= 12000 THEN "Uncomfortable"
                     ELSE "Very Uncomfortable"]

\* a call _calculate_comfort_index(temp, humidity, wind_speed) with whole
\* numbers of degrees, percent and mph
ComfortIndexCall ==
    /\ calc_pc = "call"
    /\ calc_ret' = Some(_calculate_comfort_index(MeanScale * calc_args.temp,
                                                 MeanScale * calc_args.humidity,
                                                 MeanScale * calc_args.wind_speed))
    /\ calc_pc' = "return"
    /\ UNCHANGED <<calc_args, hash_seed, fetch_vars, state, wf_vars, llm_vars, rep_vars, mp_vars>>

ComfortInit ==
    /\ calc_pc = "call"
    /\ calc_args \in [temp : ComfortTemps, humidity : ComfortHumidities,
                      wind_speed : ComfortWinds]
    /\ calc_ret = <<>>
    /\ hash_seed = 0
    /\ state = IdleState
    /\ FetchIdle
    /\ WorkflowIdle
    /\ LLMIdle
    /\ ReportIdle
    /\ MPIdle

ComfortNext == ComfortIndexCall

ComfortSpec == ComfortInit /\ [][ComfortNext]_vars

\* C18: the comfort index is 100 at 70 F, 50 % and 10 mph, and it does not
\* increase when a single input moves one step further away from its ideal
\* band (temperature [68,72], humidity [40,60], wind [5,15]) while the other
\* two are held fixed, over the whole input range.
C18_ComfortIndexMonotone ==
    calc_pc = "return" =>
        LET t == calc_args.temp
            h == calc_args.humidity
            w == calc_args.wind_speed
            c == calc_ret[1].comfort
            At(t2, h2, w2) == _calculate_comfort_index(MeanScale * t2, MeanScale * h2,
                                                       MeanScale * w2).comfort
        IN  /\ (t = 70 /\ h = 50 /\ w = 10) => c = 60000
            /\ t >= 72 => At(t + 1, h, w) <= c
            /\ t <= 68 => At(t - 1, h, w) <= c
            /\ h >= 60 => At(t, h + 5, w) <= c
            /\ h <= 40 => At(t, h - 5, w) <= c
            /\ w >= 15 => At(t, h, w + 1) <= c
            /\ (w <= 5 /\ w >= 1) => At(t, h, w - 1) <= c

(***************************************************************************)
(* ReportAgent._analyze_trends over the list of source readings.           *)
(***************************************************************************)
MaxReadings == 3

TrendTemps     == {60, 63, 65, 70}
TrendPressures == {990, 1013, 1025}
TrendReadings  == [temperature : TrendTemps, pressure : TrendPressures]
TrendLists     == UNION { [1..n -> TrendReadings] : n \in 0..MaxReadings }

_interpret_trends(temp_trend, pressure_trend) ==
    IF pressure_trend = "low" /\ temp_trend = "rising"
        THEN <<"Potential for stormy weather">>
    ELSE IF pressure_trend = "high" /\ temp_trend = "falling"
        THEN <<"Weather likely to clear">>
    ELSE IF pressure_trend = "low" THEN <<"Possible precipitation">>
    ELSE <<>>

_analyze_trends_NetChange(raw_data) ==
    IF Len(raw_data) < 3
        THEN [available |-> FALSE, temperature |-> "", pressure |-> "",
              implications |-> <<>>]
    ELSE
        LET temps == [i \in 1..Len(raw_data) |-> raw_data[i].temperature]
            temp_trend == IF temps[1] < temps[Len(temps)] THEN "rising"
                          ELSE IF temps[1] > temps[Len(temps)] THEN "falling"
                          ELSE "stable"
        IN  [available |-> TRUE, temperature |-> temp_trend, pressure |-> "stable",
             implications |-> <<>>]

_analyze_trends(raw_data) ==
    IF Len(raw_data) < 3
        THEN [available |-> FALSE, temperature |-> "", pressure |-> "",
              implications |-> <<>>]
    ELSE
        LET temps     == [i \in 1..Len(raw_data) |-> raw_data[i].temperature]
            pressures == [i \in 1..Len(raw_data) |-> raw_data[i].pressure]
            temp_trend ==
                IF \A i \in 1..(Len(temps) - 1) : temps[i] < temps[i + 1] THEN "rising"
                ELSE IF \A i \in 1..(Len(temps) - 1) : temps[i] > temps[i + 1]
                    THEN "falling"
                ELSE "stable"
            \* statistics.mean(pressures) < 1000, compared without dividing
            pressure_trend ==
                IF ListSum(pressures) < 1000 * Len(pressures) THEN "low"
                ELSE IF ListSum(pressures) > 1020 * Len(pressures) THEN "high"
                ELSE "stable"
        IN  [available |-> TRUE, temperature |-> temp_trend,
             pressure |-> pressure_trend,
             implications |-> _interpret_trends(temp_trend, pressure_trend)]

\* a call _analyze_trends(raw_data)
AnalyzeTrendsCall ==
    /\ calc_pc = "call"
    /\ calc_ret' = Some(_analyze_trends(calc_args))
    /\ calc_pc' = "return"
    /\ UNCHANGED <<calc_args, hash_seed, fetch_vars, state, wf_vars, llm_vars, rep_vars, mp_vars>>

TrendInit ==
    /\ calc_pc = "call"
    /\ calc_args \in TrendLists
    /\ calc_ret = <<>>
    /\ hash_seed = 0
    /\ state = IdleState
    /\ FetchIdle
    /\ WorkflowIdle
    /\ LLMIdle
    /\ ReportIdle
    /\ MPIdle

TrendNext == AnalyzeTrendsCall

TrendSpec == TrendInit /\ [][TrendNext]_vars

\* C19: with at least 3 readings the temperature trend is "rising" exactly
\* when every consecutive pair of temperatures is strictly increasing,
\* "falling" exactly when every consecutive pair is strictly decreasing and
\* "stable" otherwise; with fewer than 3 readings no trend is reported.
C19_TrendIsStrictlyMonotone ==
    calc_pc = "return" =>
        LET n      == Len(calc_args)
            t(i)   == calc_args[i].temperature
            up     == \A i \in 1..(n - 1) : t(i) < t(i + 1)
            down   == \A i \in 1..(n - 1) : t(i) > t(i + 1)
            ret    == calc_ret[1]
        IN  IF n >= 3
                THEN /\ ret.available
                     /\ ret.temperature \in {"rising", "falling", "stable"}
                     /\ ret.temperature = "rising" <=> up
                     /\ ret.temperature = "falling" <=> down
                     /\ ret.temperature = "stable" <=> (~up /\ ~down)
                ELSE /\ ~ret.available
                     /\ ret.temperature \notin {"rising", "falling", "stable"}

\* the readings 60, 65, 63 have a net increase and are reported as stable
C19_Witness ==
    /\ calc_pc = "return"
    /\ Len(calc_args) = 3
    /\ calc_args[1].temperature = 60
    /\ calc_args[2].temperature = 65
    /\ calc_args[3].temperature = 63
    /\ calc_ret[1].temperature = "stable"

(***************************************************************************)
(* ReportAgent.generate_weather_data_report: the analysis of the readings  *)
(* and the alerts raised from it.                                          *)
(***************************************************************************)
\* the readings in state["raw_weather_data"]: the three readings of a calm
\* clear day, and hot, cold, windy and stormy ones
ReportReading(t, h, w, c) ==
    [temperature |-> t, humidity |-> h, pressure |-> 1013, wind_speed |-> w,
     conditions |-> c]
ReportReadings ==
    {ReportReading(70, 45, 8, "Clear"), ReportReading(72, 50, 10, "Clear"),
     ReportReading(74, 55, 12, "Clear")}
    \cup { ReportReading(t, 50, w, "Clear") : t \in {-15, -5, 96, 115},
                                               w \in {10, 55, 65, 75} }
    \cup { ReportReading(72, 50, 10, c) : c \in {"Thunderstorm", "Fog"} }
\* one reading per source at most
ReportInputs == UNION { [1..n -> ReportReadings] : n \in 0..Cardinality(DataSource) }

\* avg is the exact mean sum / len
_calculate_statistics(values) ==
    IF values = <<>>
    THEN [avg |-> Rat(0, 1), min |-> 0, max |-> 0]
    ELSE [avg |-> Rat(ListSum(values), Len(values)),
          min |-> ListMin(values), max |-> ListMax(values)]

\* the mean in sixths of a unit, as passed to _calculate_comfort_index
MeanInSixths(values) == (MeanScale * ListSum(values)) \div Len(values)

_calculate_consistency(raw_data) ==
    IF Len(raw_data) < 2
    THEN [conditions_agreement |-> Rat(1, 1)]
    ELSE LET conditions == [i \in 1..Len(raw_data) |-> raw_data[i].conditions]
             most == ListMax([i \in 1..Len(conditions) |-> Count(conditions, conditions[i])])
         IN  [conditions_agreement |-> Rat(most, Len(conditions))]

_assess_risk_factors(temp_stats, conditions, wind_stats) ==
    LET temp_avg == temp_stats.avg
        wind_max == wind_stats.max
        temperature_risks ==
            IF RatLess(Rat(95, 1), temp_avg) THEN <<[type |-> "heat", level |-> "high"]>>
            ELSE IF RatLess(Rat(85, 1), temp_avg) THEN <<[type |-> "heat", level |-> "medium"]>>
            ELSE IF RatLess(temp_avg, Rat(20, 1)) THEN <<[type |-> "cold", level |-> "high"]>>
            ELSE IF RatLess(temp_avg, Rat(32, 1)) THEN <<[type |-> "cold", level |-> "medium"]>>
            ELSE <<>>
        condition_risks ==
            IF conditions.primary = "Thunderstorm"
                THEN <<[type |-> "lightning", level |-> "high"]>>
            ELSE IF conditions.primary = "Heavy Rain"
                THEN <<[type |-> "flooding", level |-> "medium"]>>
            ELSE IF conditions.primary = "Snow"
                THEN <<[type |-> "slippery", level |-> "medium"]>>
            ELSE IF conditions.primary = "Fog"
                THEN <<[type |-> "visibility", level |-> "low"]>>
            ELSE <<>>
        wind_risks ==
            IF wind_max > 40 THEN <<[type |-> "wind", level |-> "high"]>>
            ELSE IF wind_max > 25 THEN <<[type |-> "wind", level |-> "medium"]>>
            ELSE <<>>
    IN  [factors |-> temperature_risks \o condition_risks \o wind_risks]

\* raw_data is not empty
_analyze_comprehensive(raw_data) ==
    LET temps       == [i \in 1..Len(raw_data) |-> raw_data[i].temperature]
        humidities  == [i \in 1..Len(raw_data) |-> raw_data[i].humidity]
        wind_speeds == [i \in 1..Len(raw_data) |-> raw_data[i].wind_speed]
        temp_stats  == _calculate_statistics(temps)
        wind_stats  == _calculate_statistics(wind_speeds)
        conditions_analysis ==
            _analyze_conditions([i \in 1..Len(raw_data) |-> raw_data[i].conditions])
    IN  [temperature  |-> temp_stats,
         humidity     |-> _calculate_statistics(humidities),
         wind         |-> wind_stats,
         conditions   |-> conditions_analysis,
         comfort      |-> _calculate_comfort_index(MeanInSixths(temps),
                                                   MeanInSixths(humidities),
                                                   MeanInSixths(wind_speeds)),
         consistency  |-> _calculate_consistency(raw_data),
         trends       |-> _analyze_trends(raw_data),
         risk_factors |-> _assess_risk_factors(temp_stats, conditions_analysis, wind_stats)]

WeatherAlert(severity, type) == [severity |-> severity, type |-> type]

\* alerts of which only the first category that applies is raised
_generate_alerts_Exclusive(raw_data, insights) ==
    IF RatLess(Rat(temp_alert_high, 1), insights.temperature.avg)
        THEN <<WeatherAlert("high", "heat")>>
    ELSE IF RatLess(insights.temperature.avg, Rat(temp_alert_low, 1))
        THEN <<WeatherAlert("high", "cold")>>
    ELSE IF insights.wind.max > wind_alert
        THEN <<WeatherAlert("medium", "wind")>>
    ELSE <<>>

\* the alerts are appended in the order of the checks in the code
_generate_alerts(raw_data, insights) ==
    LET avg_temp   == insights.temperature.avg
        temp_range == insights.temperature.max - insights.temperature.min
        max_wind   == insights.wind.max
        primary_condition == insights.conditions.primary
        heat ==
            IF RatLess(Rat(temp_alert_high, 1), avg_temp)
            THEN <<WeatherAlert(IF RatLess(Rat(temp_alert_high + 10, 1), avg_temp)
                                THEN "critical" ELSE "high", "heat")>>
            ELSE <<>>
        cold ==
            IF RatLess(avg_temp, Rat(temp_alert_low, 1))
            THEN <<WeatherAlert(IF RatLess(avg_temp, Rat(temp_alert_low - 10, 1))
                                THEN "critical" ELSE "high", "cold")>>
            ELSE <<>>
        variation ==
            IF temp_range > 20 THEN <<WeatherAlert("medium", "temperature_variation")>>
            ELSE <<>>
        wind ==
            IF max_wind > wind_alert
            THEN <<WeatherAlert(IF max_wind > wind_alert + 20 THEN "critical"
                                ELSE IF max_wind > wind_alert + 10 THEN "high"
                                ELSE "medium", "wind")>>
            ELSE <<>>
        condition ==
            IF primary_condition = "Thunderstorm" THEN <<WeatherAlert("critical", "lightning")>>
            ELSE IF primary_condition = "Heavy Rain" THEN <<WeatherAlert("high", "flooding")>>
            ELSE IF primary_condition = "Snow" THEN <<WeatherAlert("medium", "winter")>>
            ELSE IF primary_condition = "Fog" THEN <<WeatherAlert("low", "visibility")>>
            ELSE <<>>
        data_quality ==
            IF RatLess(insights.consistency.conditions_agreement, Rat(3, 10))
            THEN <<WeatherAlert("low", "data_quality")>>
            ELSE <<>>
        factors == insights.risk_factors.factors
        high_risks == SelectSeq(factors, LAMBDA r : r.level = "high")
        risk == [i \in 1..Len(high_risks) |->
                    WeatherAlert("high", "risk_" \o high_risks[i].type)]
    IN  heat \o cold \o variation \o wind \o condition \o data_quality \o risk

severity_weights(severity) ==
    CASE severity = "critical" -> 4
      [] severity = "high"     -> 3
      [] severity = "medium"   -> 2
      [] OTHER                 -> 1

\* list.sort is stable: alerts of one weight keep their order; the first
\* five are returned
_prioritize_alerts(alerts) ==
    LET OfWeight(n) == SelectSeq(alerts, LAMBDA a : severity_weights(a.severity) = n)
        sorted == OfWeight(4) \o OfWeight(3) \o OfWeight(2) \o OfWeight(1)
        prioritized == [i \in 1..Len(sorted) |->
                           [alert |-> sorted[i],
                            priority_score |-> severity_weights(sorted[i].severity),
                            attention_required |-> sorted[i].severity \in {"critical", "high"}]]
    IN  SubSeq(prioritized, 1, Min2(5, Len(prioritized)))

\* the alerts_summary of the WeatherReport
_generate_report(raw_data, insights, alerts) ==
    [alerts_summary |-> [total |-> Len(alerts),
                         priority_order |-> _prioritize_alerts(alerts)]]

\* generate_weather_data_report with the four result assignments made as
\* soon as each value is computed
ReportOutcome_Eager(st, raisesAt, msg) ==
    IF st.raw_weather_data = <<>>
    THEN [st EXCEPT !.agent2_status = FAILED,
                    !.errors = Append(@, "No weather data to analyze")]
    ELSE LET raw_data == st.raw_weather_data
             detailed_insights == _analyze_comprehensive(raw_data)
             alerts == _generate_alerts(raw_data, detailed_insights)
         IN  IF raisesAt = "no"
             THEN [st EXCEPT !.detailed_insights = Some(detailed_insights),
                             !.weather_alerts = alerts,
                             !.analysis_summary = Some("summary"),
                             !.weather_report =
                                 Some(_generate_report(raw_data, detailed_insights, alerts)),
                             !.agent2_status = COMPLETED]
             ELSE [st EXCEPT !.detailed_insights =
                                 IF raisesAt = "analysis" THEN @ ELSE Some(detailed_insights),
                             !.weather_alerts =
                                 IF raisesAt \in {"analysis", "alerts"} THEN @ ELSE alerts,
                             !.agent2_status = FAILED,
                             !.errors = Append(@, <<"Agent 2 analysis failed", msg>>)]

\* generate_weather_data_report(state): the early return for empty input, the
\* four values computed and then stored together, or an exception raised by
\* one of the four computations
ReportOutcome(st, raisesAt, msg) ==
    IF st.raw_weather_data = <<>>
    THEN [st EXCEPT !.agent2_status = FAILED,
                    !.errors = Append(@, "No weather data to analyze")]
    ELSE IF raisesAt # "no"
    THEN [st EXCEPT !.agent2_status = FAILED,
                    !.errors = Append(@, <<"Agent 2 analysis failed", msg>>)]
    ELSE LET raw_data == st.raw_weather_data
             detailed_insights == _analyze_comprehensive(raw_data)
             alerts == _generate_alerts(raw_data, detailed_insights)
             report == _generate_report(raw_data, detailed_insights, alerts)
         IN  [st EXCEPT !.detailed_insights = Some(detailed_insights),
                        !.weather_alerts = alerts,
                        !.analysis_summary = Some("summary"),
                        !.weather_report = Some(report),
                        !.agent2_status = COMPLETED]

\* where the analysis raises, if it does: in _analyze_comprehensive,
\* _generate_alerts, _generate_report or _generate_executive_summary
RaisePoints == {"no", "analysis", "alerts", "report", "summary"}

GenerateWeatherDataReport ==
    /\ rep_pc = "ready"
    /\ \E raisesAt \in RaisePoints :
          state' = ReportOutcome(state, raisesAt, "boom")
    /\ rep_pc' = "done"
    /\ UNCHANGED <<fetch_vars, wf_vars, llm_vars, calc_vars, mp_vars>>

\* the state handed to the report agent: the readings of agent 1, and either
\* no analysis yet or the summary and alerts of an earlier analysis
ReportInit ==
    /\ rep_pc = "ready"
    /\ \E raw_data \in ReportInputs, analysed \in BOOLEAN :
          state = [IdleState EXCEPT
                      !.raw_weather_data = raw_data,
                      !.agent1_status = COMPLETED,
                      !.analysis_summary = IF analysed THEN Some("earlier summary") ELSE None,
                      !.weather_alerts = IF analysed THEN <<WeatherAlert("medium", "wind")>>
                                         ELSE <<>>]
    /\ FetchIdle
    /\ WorkflowIdle
    /\ LLMIdle
    /\ CalcIdle
    /\ MPIdle

ReportNext == GenerateWeatherDataReport

ReportSpec == ReportInit /\ [][ReportNext]_vars

\* the severities of the alerts of one type in weather_alerts
SeveritiesOf(type) ==
    LET of_type == SelectSeq(state.weather_alerts, LAMBDA a : a.type = type)
    IN  [i \in 1..Len(of_type) |-> of_type[i].severity]

\* C25: a heat alert is generated iff the average temperature is strictly
\* above the high threshold, "critical" when more than 10 above it and
\* "high" otherwise; a cold alert symmetrically below the low threshold; a
\* wind alert iff the maximum wind is strictly above the wind threshold,
\* "critical" above threshold + 20, "high" above threshold + 10, else
\* "medium"; each category depends on its own metric only.
C25_AlertThresholdsAndSeverity ==
    (rep_pc = "done" /\ state.agent2_status = COMPLETED) =>
        LET raw   == state.raw_weather_data
            n     == Len(raw)
            total == ListSum([i \in 1..n |-> raw[i].temperature])
            wind  == ListMax([i \in 1..n |-> raw[i].wind_speed])
        IN  /\ SeveritiesOf("heat") =
                   (IF total > (temp_alert_high + 10) * n THEN <<"critical">>
                    ELSE IF total > temp_alert_high * n THEN <<"high">>
                    ELSE <<>>)
            /\ SeveritiesOf("cold") =
                   (IF total < (temp_alert_low - 10) * n THEN <<"critical">>
                    ELSE IF total < temp_alert_low * n THEN <<"high">>
                    ELSE <<>>)
            /\ SeveritiesOf("wind") =
                   (IF wind > wind_alert + 20 THEN <<"critical">>
                    ELSE IF wind > wind_alert + 10 THEN <<"high">>
                    ELSE IF wind > wind_alert THEN <<"medium">>
                    ELSE <<>>)

\* a hot and windy day: a heat alert and a wind alert in the same list
C25_Witness ==
    /\ rep_pc = "done"
    /\ state.agent2_status = COMPLETED
    /\ SeveritiesOf("heat") = <<"high">>
    /\ SeveritiesOf("wind") = <<"high">>

\* the four analysis results of a state
AnalysisFields(st) ==
    <<st.detailed_insights, st.weather_alerts, st.analysis_summary, st.weather_report>>

\* a step of generate_weather_data_report sets the four results from one run,
\* or leaves all four as they were
ResultsSetTogether ==
    (rep_pc = "ready" /\ rep_pc' = "done") =>
        /\ state'.agent2_status \in {COMPLETED, FAILED}
        /\ state'.agent2_status = FAILED => AnalysisFields(state') = AnalysisFields(state)
        /\ state'.agent2_status = COMPLETED =>
              LET raw      == state.raw_weather_data
                  insights == _analyze_comprehensive(raw)
                  alerts   == _generate_alerts(raw, insights)
              IN  /\ raw # <<>>
                  /\ state'.detailed_insights = Some(insights)
                  /\ state'.weather_alerts = alerts
                  /\ state'.analysis_summary # None
                  /\ state'.analysis_summary # state.analysis_summary
                  /\ state'.weather_report = Some(_generate_report(raw, insights, alerts))

\* C29: generate_weather_data_report updates the analysis results
\* atomically: ending COMPLETED, detailed_insights, weather_alerts,
\* analysis_summary and weather_report are all set from the same run; ending
\* FAILED (empty input or an exception in the analysis), all four are left
\* exactly as they were before the call.
C29_ResultsUpdatedAtomically == [][ResultsSetTogether]_vars

\* the analysis raised on a state that already held alerts: they are kept
C29_Witness ==
    /\ rep_pc = "done"
    /\ state.agent2_status = FAILED
    /\ state.raw_weather_data # <<>>
    /\ state.weather_alerts # <<>>
    /\ state.detailed_insights = None

\* C20: the alert list stored in weather_alerts is ordered by non-increasing
\* severity weight (critical, then high, then medium, then low), for every
\* combination of alerts that can be generated together.
C20_AlertsOrderedBySeverity ==
    (rep_pc = "done" /\ state.agent2_status = COMPLETED) =>
        \A i \in 1..(Len(state.weather_alerts) - 1) :
            severity_weights(state.weather_alerts[i].severity)
                >= severity_weights(state.weather_alerts[i + 1].severity)

\* three successful providers report 70, 72, 74 F, 45, 50, 55 % humidity and
\* 8, 10, 12 mph wind, all with the condition "Clear"
CalmClearDay ==
    /\ Succeeded = DataSource
    /\ { ReadingOf(s).temperature : s \in DataSource } = {70, 72, 74}
    /\ { ReadingOf(s).humidity : s \in DataSource } = {45, 50, 55}
    /\ { ReadingOf(s).wind_speed : s \in DataSource } = {8, 10, 12}
    /\ \A s \in DataSource : ReadingOf(s).conditions = "Clear"

\* the successful readings as the list the report agent analyses
ReadingsForReport ==
    LET succ == SuccessfulSources(results)
    IN  [i \in 1..Len(succ) |->
            ReportReading(ReadingOf(succ[i]).temperature, ReadingOf(succ[i]).humidity,
                          ReadingOf(succ[i]).wind_speed, ReadingOf(succ[i]).conditions)]

\* C13: for the three readings of the calm clear day the consensus confidence
\* is above 0.8, the consensus temperature is within 1 F of 72, no
\* disagreement is listed, the comfort level is "Very Comfortable" or
\* "Comfortable", and no heat, cold or wind alert is generated.
C13_CalmClearDayScenario ==
    (ConsensusDone /\ CalmClearDay) =>
        LET c        == consensus[1]
            insights == _analyze_comprehensive(ReadingsForReport)
            alerts   == _generate_alerts(ReadingsForReport, insights)
        IN  /\ ~c.raised
            /\ RatLess(Rat(8, 10), c.confidence)
            /\ ~RatLess(c.temperature, Rat(71, 1))
            /\ ~RatLess(Rat(73, 1), c.temperature)
            /\ c.disagreements = <<>>
            /\ insights.comfort.level \in {"Very Comfortable", "Comfortable"}
            /\ \A i \in 1..Len(alerts) : alerts[i].type \notin {"heat", "cold", "wind"}

(***************************************************************************)
(* MultiProviderLLM.generate_response(prompt, system_prompt) with the      *)
(* default provider = "auto".  A provider's key is "ok" when its client is *)
(* configured and is_available() holds, "unusable" when it is configured   *)
(* but not available, "nokey" when it is not configured; availability does *)
(* not change when a call fails.                                           *)
(***************************************************************************)
\* bound: the depth of nested generate_response frames at which the
\* interpreter raises RecursionError
RecursionLimit == 4

\* _get_next_best_provider(exclude): get_client raises ValueError for a
\* provider without a client ("fallback" never has one) and the loop goes on
_get_next_best_provider(keys, exclude) ==
    LET priority_order == <<"openai", "groq", "gemini", "fallback">>
        usable == SelectSeq(priority_order,
                            LAMBDA p : p # exclude /\ p \in LLMProviders /\ keys[p] = "ok")
    IN  IF usable = <<>> THEN None ELSE Some(Head(usable))

Invocation(provider, raised) == [provider |-> provider, raised |-> raised]

\* a frame of generate_response whose provider call returns: the client is
\* the best available one, whatever self.client was
GenerateResponseReturns ==
    /\ mp_pc = "call"
    /\ Len(mp_trace) < RecursionLimit
    /\ LET client == get_best_available_client(llm_keys)[1]
       IN  /\ current_provider' = client
           /\ mp_trace' = Append(mp_trace, Invocation(client, FALSE))
           /\ mp_result' = Some([kind |-> "returned", by |-> client])
    /\ mp_pc' = "done"
    /\ UNCHANGED <<fetch_vars, state, wf_vars, llm_vars, rep_vars, calc_vars>>

\* a frame whose provider call raises LLMError: switch self.client to the
\* next best provider and call generate_response again, or re-raise when
\* there is no other provider
GenerateResponseRaises ==
    /\ mp_pc = "call"
    /\ Len(mp_trace) < RecursionLimit
    /\ LET client == get_best_available_client(llm_keys)[1]
           fallback_client == _get_next_best_provider(llm_keys, client)
       IN  /\ mp_trace' = Append(mp_trace, Invocation(client, TRUE))
           /\ IF fallback_client # None /\ fallback_client[1] # client
              THEN /\ current_provider' = fallback_client[1]
                   /\ UNCHANGED <<mp_pc, mp_result>>
              ELSE /\ current_provider' = client
                   /\ mp_result' = Some([kind |-> "raised", by |-> "LLMError"])
                   /\ mp_pc' = "done"
    /\ UNCHANGED <<fetch_vars, state, wf_vars, llm_vars, rep_vars, calc_vars>>

\* the nested call exceeds the recursion limit: RecursionError is not an
\* LLMError and passes through every frame
GenerateResponseRecursionError ==
    /\ mp_pc = "call"
    /\ Len(mp_trace) >= RecursionLimit
    /\ mp_result' = Some([kind |-> "raised", by |-> "RecursionError"])
    /\ mp_pc' = "done"
    /\ UNCHANGED <<current_provider, mp_trace, fetch_vars, state, wf_vars, llm_vars,
                   rep_vars, calc_vars>>

\* MultiProviderLLM(config) was constructed: some provider is available and
\* self.client is the best one
MultiProviderInit ==
    /\ llm_keys \in { k \in [LLMProviders -> {"nokey", "unusable", "ok"}] :
                         get_best_available_client(k) # None }
    /\ llm_client = None
    /\ llm_pc = "off"
    /\ attempt = 0
    /\ llm_calls = 0
    /\ response_text = None
    /\ last_exc = None
    /\ retry_outcome = None
    /\ errors_before = <<>>
    /\ mp_pc = "call"
    /\ current_provider = get_best_available_client(llm_keys)[1]
    /\ mp_trace = <<>>
    /\ mp_result = None
    /\ state = IdleState
    /\ FetchIdle
    /\ WorkflowIdle
    /\ ReportIdle
    /\ CalcIdle

MultiProviderNext ==
    \/ GenerateResponseReturns
    \/ GenerateResponseRaises
    \/ GenerateResponseRecursionError

MultiProviderSpec == MultiProviderInit /\ [][MultiProviderNext]_vars

\* the providers, other than p, that could take over
OtherAvailable(p) == { q \in LLMProviders \ {p} : llm_keys[q] = "ok" }

\* C22: when the provider used by generate_response raises LLMError and
\* another provider is available, the next invocation is made on a provider
\* different from the one that just failed, and when the call ends its
\* result is the answer of such a provider.
C22_RetryOnDifferentProvider ==
    /\ \A i \in 1..(Len(mp_trace) - 1) :
          (mp_trace[i].raised /\ OtherAvailable(mp_trace[i].provider) # {})
              => mp_trace[i + 1].provider # mp_trace[i].provider
    /\ (/\ mp_pc = "done"
        /\ Len(mp_trace) = 2
        /\ mp_trace[1].raised
        /\ ~mp_trace[2].raised)
           => /\ mp_result[1].kind = "returned"
              /\ mp_result[1].by # mp_trace[1].provider

\* C27: within one call of generate_response no provider is invoked again
\* after it has failed, the number of provider invocations is at most the
\* number of configured providers, and when every provider has failed the
\* LLMError is re-raised to the caller.
C27_BoundedProviderInvocations ==
    /\ \A i, j \in 1..Len(mp_trace) :
          (i < j /\ mp_trace[i].raised) => mp_trace[j].provider # mp_trace[i].provider
    /\ Len(mp_trace) <= Cardinality({ p \in LLMProviders : llm_keys[p] # "nokey" })
    /\ (mp_pc = "done" /\ \A i \in 1..Len(mp_trace) : mp_trace[i].raised)
          => mp_result[1] = [kind |-> "raised", by |-> "LLMError"]

(***************************************************************************)
(* The parts of ReportAgent._analyze_comprehensive that aggregate texts:   *)
(* the primary condition, the primary wind direction and the descriptions. *)
(* max(set(...)) and list(set(...)) iterate over a set of strings, whose   *)
(* order is fixed by the string hash seed of the interpreter process.      *)
(***************************************************************************)
\* bit 0 orders the cardinal labels, bit 1 the description texts
HashSeeds == 0..3

\* the keys of cardinal_map in dict order; their angles are 22.5 degrees apart
CardinalLabels ==
    <<"N", "NNE", "NE", "ENE", "E", "ESE", "SE", "SSE",
      "S", "SSW", "SW", "WSW", "W", "WNW", "NW", "NNW">>

\* min(abs(deg - card_deg), 360 - abs(deg - card_deg)), in tenths of a degree
CardinalDiff(deg, k) ==
    Min2(Abs(10 * deg - 225 * (k - 1)), 3600 - Abs(10 * deg - 225 * (k - 1)))

\* the closest cardinal label: the first key with the smallest difference
ClosestCardinal(deg) ==
    CardinalLabels[CHOOSE k \in 1..16 :
                       /\ \A j \in 1..16 : CardinalDiff(deg, k) <= CardinalDiff(deg, j)
                       /\ \A j \in 1..(k - 1) : CardinalDiff(deg, j) > CardinalDiff(deg, k)]

DescriptionTexts == <<"clear sky", "few clouds">>

\* the position of a text in the iteration of a set that holds it, for the
\* process with the given hash seed
HashRank(universe, x, flipped) ==
    LET i == CHOOSE k \in 1..Len(universe) : universe[k] = x
    IN  IF flipped THEN Len(universe) + 1 - i ELSE i

\* list(set(items)) for a process with the given order
RECURSIVE SetAsList(_, _, _)
SetAsList(S, universe, flipped) ==
    IF S = {} THEN <<>>
    ELSE LET x == CHOOSE y \in S :
                    \A z \in S : HashRank(universe, y, flipped) <= HashRank(universe, z, flipped)
         IN  <<x>> \o SetAsList(S \ {x}, universe, flipped)

\* max(set(items), key=items.count): the first element, in the iteration
\* order of the set, with the highest count
MaxOfSetByCount(items, universe, flipped) ==
    LET order == SetAsList({ items[i] : i \in 1..Len(items) }, universe, flipped)
        first == CHOOSE k \in 1..Len(order) :
                    /\ \A j \in 1..Len(order) : Count(items, order[j]) <= Count(items, order[k])
                    /\ \A j \in 1..(k - 1) : Count(items, order[j]) < Count(items, order[k])
    IN  order[first]

_calculate_wind_direction(directions, seed) ==
    IF directions = <<>> THEN "Variable/Calm"
    ELSE MaxOfSetByCount([i \in 1..Len(directions) |-> ClosestCardinal(directions[i])],
                         CardinalLabels, seed % 2 = 1)

\* "descriptions": list(set(descriptions))[:5] of the non-empty descriptions
DescriptionsOf(raw_data, seed) ==
    LET descriptions == { raw_data[i].description : i \in 1..Len(raw_data) } \ {""}
        listed == SetAsList(descriptions, DescriptionTexts, seed \div 2 = 1)
    IN  SubSeq(listed, 1, Min2(5, Len(listed)))

\* the readings the aggregation is exercised with
TextReadings ==
    { [conditions |-> cd[1], description |-> cd[2], wind_direction |-> wd] :
          cd \in {<<"Clear", "clear sky">>, <<"Clouds", "few clouds">>, <<"Clear", "">>},
          wd \in {0, 90, 180} }
TextInputs == UNION { [1..n -> TextReadings] : n \in 1..Cardinality(DataSource) }

\* the text aggregates of _analyze_comprehensive(raw_data)
TextInsights(raw_data, seed) ==
    LET wind_directions ==
            SelectSeq([i \in 1..Len(raw_data) |-> raw_data[i].wind_direction],
                      LAMBDA d : d > 0)
    IN  [primary_condition |->
             _analyze_conditions([i \in 1..Len(raw_data) |-> raw_data[i].conditions]).primary,
         primary_direction |-> _calculate_wind_direction(wind_directions, seed),
         descriptions      |-> DescriptionsOf(raw_data, seed)]

\* one run of _analyze_comprehensive on the readings; calc_ret collects the
\* insights of the runs
AnalyzeComprehensiveRun ==
    /\ calc_pc = "call"
    /\ calc_ret' = Append(calc_ret, TextInsights(calc_args, hash_seed))
    /\ calc_pc' = IF Len(calc_ret) = 0 THEN "call" ELSE "return"
    /\ UNCHANGED <<calc_args, hash_seed, fetch_vars, state, wf_vars, llm_vars, rep_vars, mp_vars>>

\* the second run is made by another interpreter process, whose hash seed
\* is drawn afresh (hash randomization is on by default)
NewProcess ==
    /\ calc_pc = "call"
    /\ Len(calc_ret) = 1
    /\ \E seed \in HashSeeds \ {hash_seed} : hash_seed' = seed
    /\ UNCHANGED <<calc_pc, calc_args, calc_ret, fetch_vars, state, wf_vars, llm_vars,
                   rep_vars, mp_vars>>

AnalysisInit ==
    /\ calc_pc = "call"
    /\ calc_args \in TextInputs
    /\ calc_ret = <<>>
    /\ hash_seed \in HashSeeds
    /\ state = IdleState
    /\ FetchIdle
    /\ WorkflowIdle
    /\ LLMIdle
    /\ ReportIdle
    /\ MPIdle

AnalysisNext ==
    \/ AnalyzeComprehensiveRun
    \/ NewProcess

AnalysisSpec == AnalysisInit /\ [][AnalysisNext]_vars

\* C23: two runs of the analysis on the same list of readings produce the
\* same primary condition, the same primary wind direction and the same
\* list of descriptions, also when several conditions or several cardinal
\* labels tie for most frequent.
C23_AnalysisIsDeterministic ==
    Len(calc_ret) = 2 => calc_ret[1] = calc_ret[2]

(***************************************************************************)
(* The three stage handlers together: _agent1_node inside the workflow,    *)
(* ReportAgent.generate_weather_data_report and LLMAgent.analyze_with_llm, *)
(* each started from the states it is entered in.                          *)
(***************************************************************************)
StagesInit ==
    \/ WorkflowInit
    \/ ReportInit
    \/ (LLMInit /\ state.user_question = NoQuestion)

StagesNext ==
    \/ WorkflowNext
    \/ ReportNext
    \/ LLMNext

StagesSpec == StagesInit /\ [][StagesNext]_vars

StageStatusOf(st) == <<st.agent1_status, st.agent2_status, st.agent3_status>>

\* a step that keeps the errors log as a prefix, and extends it when a stage
\* status becomes FAILED
FailureIsLogged ==
    /\ Len(state'.errors) >= Len(state.errors)
    /\ SubSeq(state'.errors, 1, Len(state.errors)) = state.errors
    /\ \A k \in 1..3 :
          (StageStatusOf(state')[k] = FAILED /\ StageStatusOf(state)[k] # FAILED)
              => Len(state'.errors) > Len(state.errors)

\* C26: every step that sets a stage status to FAILED appends an error to
\* the errors log in the same step, no step removes an entry from the log,
\* and in every reachable state a FAILED stage status implies a non-empty
\* errors log.
C26_FailedImpliesErrorLogged ==
    /\ []((\E k \in 1..3 : StageStatusOf(state)[k] = FAILED) => state.errors # <<>>)
    /\ [][FailureIsLogged]_vars

\* the collector raised: agent1 is FAILED and its error is the only entry
C26_Witness ==
    /\ wf_pc = "agent2"
    /\ state.agent1_status = FAILED
    /\ Len(state.errors) = 1

(***************************************************************************)
(* ReportAgent._determine_severity and _assess_conditions_severity         *)
(***************************************************************************)
_assess_conditions_severity(condition) ==
    IF condition \in {"Thunderstorm", "Blizzard", "Hurricane", "Tornado"} THEN "severe"
    ELSE IF condition \in {"Heavy Rain", "Heavy Snow", "Ice Storm", "Freezing Rain"} THEN "high"
    ELSE IF condition \in {"Rain", "Snow", "Fog", "Windy"} THEN "moderate"
    ELSE "low"

\* the level returned by _determine_severity; temp_stats.avg and
\* conditions.confidence are fractions
_determine_severity(temp_stats, conditions, wind_stats) ==
    LET primary_condition == conditions.primary
        temp_avg == temp_stats.avg
        wind_max == wind_stats.max
        severity_reasons ==
            (IF primary_condition \in {"Heavy Rain", "Heavy Snow", "Ice Storm"}
             THEN <<"conditions">> ELSE <<>>)
            \o (IF RatLess(Rat(temp_alert_high, 1), temp_avg)
                THEN <<"High temperature">> ELSE <<>>)
            \o (IF RatLess(temp_avg, Rat(temp_alert_low, 1))
                THEN <<"Low temperature">> ELSE <<>>)
            \o (IF wind_max > wind_alert THEN <<"High winds">> ELSE <<>>)
            \o (IF RatLess(conditions.confidence, Rat(3, 10))
                THEN <<"Low data confidence">> ELSE <<>>)
    IN  IF primary_condition \in {"Thunderstorm", "Blizzard", "Hurricane"} THEN "severe"
        ELSE IF severity_reasons # <<>> THEN "high"
        ELSE IF conditions.assessment = "moderate" THEN "moderate"
        ELSE "normal"

\* the primary conditions, average temperatures, maximum winds and condition
\* confidences (count / number of readings) the severity is determined for
SeverityConditions == {"Thunderstorm", "Tornado", "Heavy Rain", "Freezing Rain", "Rain", "Clear"}
SeverityInputs ==
    [primary : SeverityConditions, temp_avg : {-5, 70, 105}, wind_max : {10, 55},
     confidence : {Rat(1, 3), Rat(1, 2), Rat(1, 1)}]

\* _determine_severity(temp_stats, conditions_analysis, wind_stats) as
\* _analyze_comprehensive calls it, with the assessment of _analyze_conditions
DetermineSeverityCall ==
    /\ calc_pc = "call"
    /\ LET assessment == _assess_conditions_severity(calc_args.primary)
       IN  calc_ret' = Some([assessment |-> assessment,
                             level |-> _determine_severity(
                                           [avg |-> Rat(calc_args.temp_avg, 1)],
                                           [primary |-> calc_args.primary,
                                            confidence |-> calc_args.confidence,
                                            assessment |-> assessment],
                                           [max |-> calc_args.wind_max])])
    /\ calc_pc' = "return"
    /\ UNCHANGED <<calc_args, hash_seed, fetch_vars, state, wf_vars, llm_vars, rep_vars, mp_vars>>

SeverityInit ==
    /\ calc_pc = "call"
    /\ calc_args \in SeverityInputs
    /\ calc_ret = <<>>
    /\ hash_seed = 0
    /\ state = IdleState
    /\ FetchIdle
    /\ WorkflowIdle
    /\ LLMIdle
    /\ ReportIdle
    /\ MPIdle

SeverityNext == DetermineSeverityCall

SeveritySpec == SeverityInit /\ [][SeverityNext]_vars

\* C28: whenever _assess_conditions_severity classifies the primary
\* condition as "severe" or "high", _determine_severity returns neither
\* "normal" nor "moderate".
C28_SeverityNotBelowAssessment ==
    (calc_pc = "return" /\ calc_ret[1].assessment \in {"severe", "high"})
        => calc_ret[1].level \notin {"normal", "moderate"}

(***************************************************************************)
(* ReportAgent._detect_outliers                                            *)
(***************************************************************************)
\* bound: the longest list of readings checked for outliers
MaxOutlierReadings == 5

OutlierTemps  == {0, 1, 50, 100}
OutlierInputs == UNION { [1..n -> OutlierTemps] : n \in 0..MaxOutlierReadings }

\* abs(t - mean) > k * stdev for the sample standard deviation, compared
\* without dividing: with S the sum and Q the sum of squares of the n
\* temperatures, (n*t - S)^2 * (n - 1) > k^2 * n * (n*Q - S^2); the right
\* side is 0 exactly when stdev is 0
FartherThan(k, t, temps) ==
    LET n == Len(temps)
        S == ListSum(temps)
        Q == ListSumSq(temps)
    IN  /\ n * Q - S * S > 0
        /\ (n * t - S) * (n * t - S) * (n - 1) > k * k * n * (n * Q - S * S)

\* outlier detection at one standard deviation
_detect_outliers_OneSigma(temps) ==
    IF Len(temps) < 3 THEN <<>>
    ELSE LET flagged == SelectSeq([i \in 1..Len(temps) |-> i],
                                  LAMBDA i : FartherThan(1, temps[i], temps))
         IN  [j \in 1..Len(flagged) |-> [index |-> flagged[j], value |-> temps[flagged[j]]]]

\* _detect_outliers on the temperatures of raw_data: the readings more than
\* 2 standard deviations from the mean, in order
_detect_outliers(temps) ==
    IF Len(temps) < 3 THEN <<>>
    ELSE LET flagged == SelectSeq([i \in 1..Len(temps) |-> i],
                                  LAMBDA i : FartherThan(2, temps[i], temps))
         IN  [j \in 1..Len(flagged) |-> [index |-> flagged[j], value |-> temps[flagged[j]]]]

DetectOutliersCall ==
    /\ calc_pc = "call"
    /\ calc_ret' = Some(_detect_outliers(calc_args))
    /\ calc_pc' = "return"
    /\ UNCHANGED <<calc_args, hash_seed, fetch_vars, state, wf_vars, llm_vars, rep_vars, mp_vars>>

OutlierInit ==
    /\ calc_pc = "call"
    /\ calc_args \in OutlierInputs
    /\ calc_ret = <<>>
    /\ hash_seed = 0
    /\ state = IdleState
    /\ FetchIdle
    /\ WorkflowIdle
    /\ LLMIdle
    /\ ReportIdle
    /\ MPIdle

OutlierNext == DetectOutliersCall

OutlierSpec == OutlierInit /\ [][OutlierNext]_vars

\* C30: _detect_outliers returns an empty list for every input of 3, 4 or 5
\* readings, whatever their temperatures, and so for every list the three
\* configured providers can produce.
C30_NoOutlierBelowSixReadings ==
    (calc_pc = "return" /\ Len(calc_args) <= 5) => calc_ret[1] = <<>>

\* one reading of 100 F among four of 0 F is not reported as an outlier
C30_Witness ==
    /\ calc_pc = "return"
    /\ calc_args = <<0, 0, 0, 0, 100>>
    /\ calc_ret[1] = <<>>

====
